---- MODULE Spec2Model ----
(***************************************************************************)
(* Orchestration core of the math mentor server: the synchronous and the   *)
(* async orchestrator (app/domain/orchestrator.py, async_orchestrator.py), *)
(* the pipeline entry points and the streaming controller                  *)
(* (app/domain/pipeline.py), and the review signals of the Parse and       *)
(* Verify stages (app/agents/parser.py, verifier.py).                      *)
(*                                                                         *)
(* A request occupies one slot r \in Runs.  The completion service is the  *)
(* environment: every stage call draws its response (or a failure) from a  *)
(* small set.                                                              *)
(***************************************************************************)
EXTENDS Integers, Sequences, FiniteSets, TLC

\* ------------------------------------------------------------------ bounds
MaxRuns == 2
MaxAmbiguities == 1
MaxIssues == 1
MaxEntries == 5
MaxClock == 10
MaxRecallEntries == 2
MaxRecallClock == 4
MaxStoreEntries == 2
MaxStoreClock == 4
MaxWriters == 2
MaxWords == 2
MaxLimit == 2
MaxLongWords == 5
MaxPieces == 3
MaxOperand == 20
MaxExponent == 6
MaxBigExponent == 1024
MaxGuidanceEntries == 2

\* ------------------------------------------------------- program constants
\* settings.PARSER_AMBIGUITY_THRESHOLD
PARSER_AMBIGUITY_THRESHOLD == 1
\* settings.VERIFIER_CONFIDENCE_THRESHOLD, in hundredths (0.75)
VERIFIER_CONFIDENCE_THRESHOLD == 75

Runs == 1..MaxRuns

\* The stage graph, in the order execute_pipeline calls _execute_agent.
GUARDRAIL == 1
PARSER == 2
ROUTER == 3
SOLVER == 4
VERIFIER == 5
EXPLAINER == 6
Stages == GUARDRAIL..EXPLAINER
FiveStages == <<PARSER, ROUTER, SOLVER, VERIFIER, EXPLAINER>>

\* VerifierOutput.confidence is a float in [0,1]; hundredths, in quarter steps.
Confidences == {0, 50, 75, 100}

\* What the completion service can answer to the parser and the verifier
\* (the fields execute() reads from the response).
ParserResponses == [ambiguities : 0..MaxAmbiguities, needs_clarification : BOOLEAN]
VerifierResponses ==
    [confidence : Confidences, issues : 0..MaxIssues, requires_human_review : BOOLEAN]

NoParsed == [ambiguities |-> 0, needs_clarification |-> FALSE,
             requires_human_review |-> FALSE, present |-> FALSE]
NoVerification == [confidence |-> 0, issues |-> 0, response_flag |-> FALSE,
                   requires_human_review |-> FALSE, present |-> FALSE]

\* ParserAgent.execute: the review signal of the Parse stage.
ParserExecute(resp) ==
    [ambiguities |-> resp.ambiguities,
     needs_clarification |-> resp.needs_clarification,
     requires_human_review |->
        (resp.ambiguities >= PARSER_AMBIGUITY_THRESHOLD \/ resp.needs_clarification),
     present |-> TRUE]

\* VerifierAgent.execute: the review signal of the Verify stage.  response_flag
\* is response.get("requires_human_review", False), kept beside the output.
VerifierExecute(resp) ==
    [confidence |-> resp.confidence,
     issues |-> resp.issues,
     response_flag |-> resp.requires_human_review,
     requires_human_review |->
        (resp.confidence < VERIFIER_CONFIDENCE_THRESHOLD
           \/ resp.issues > 0
           \/ resp.requires_human_review),
     present |-> TRUE]

\* --------------------------------------------------------------- the state
VARIABLES
    concurrent,     \* whether the server takes a request while another is in progress
    settingsGuard,  \* settings.ENABLE_GUARDRAILS
    mode,           \* per request: "none", "sync" (/solve), "async" (/solve/async), "stream"
    enable,         \* per request: PipelineInput.enable_guardrails
    phase,          \* per request: position of its execute_pipeline
    cur,            \* per request: the stage being called or awaited
    fut,            \* per request: the executor future of the stage call in flight
    safety,         \* per request: guardrail_result, its should_continue and whether
                    \* its metadata reports an error
    parsed,         \* per request: the local `parsed`
    verification,   \* per request: the local `verification`
    orch,           \* per request: the orchestrator object it runs on
    asyncGlobal,    \* _async_orchestrator
    otrace,         \* per orchestrator object: self.trace
    ocallback,      \* per orchestrator object: the request whose progress_callback it holds
    outcome,        \* per request: what execute_pipeline returned or raised
    invoked,        \* per request: the stages whose agent.run was called, in call order
    executing,      \* per request: the stages whose agent.run is running in a worker thread
    queue,          \* per streaming request: progress_queue
    events,         \* per streaming request: what solve_problem_streaming has yielded
    gen,            \* per streaming request: position of the solve_problem_streaming generator
    is_cancelled,   \* per streaming request: the closure variable is_cancelled
    cancelReq,      \* per streaming request: solve_task.cancel() was called and not yet delivered
    cancelMark,     \* per streaming request: Len(events), the stage in flight and
                    \* Len(progress_queue) when cancelled; whether cancelled a second time
    store,          \* the rows of table memory_entries, in insertion order
    recalled,       \* the last call of find_similar_problems: its arguments and what it returned
    patterned,      \* the last call of get_solution_patterns, likewise
    rag,            \* RAGRetriever: whether the vector store has been initialised
    context,        \* the last call of get_combined_context by the solver, likewise
    clock,          \* datetime.utcnow(), in ticks
    returned,       \* what the last write to the store gave back to its caller
    previous,       \* history: the rows before the last feedback request was served
    txn,            \* per writer: the repository call it is in and the rows it means to commit
    lock,           \* the writer holding SQLite's write lock on the database file, or 0
    risk,           \* the last quick risk assessment of the guardrail: its text and level
    calc            \* the last evaluation of the calculator tool: its expression and result

vars == <<concurrent, settingsGuard, mode, enable, phase, cur, fut, safety, parsed,
          verification, orch, asyncGlobal, otrace, ocallback, outcome, invoked,
          executing, queue, events, gen, is_cancelled, cancelReq, cancelMark,
          store, recalled, patterned, rag, context, clock, returned, previous,
          txn, lock, risk, calc>>

pipeVars == <<phase, cur, fut, safety, parsed, verification, outcome, invoked, executing>>
streamVars == <<events, gen, is_cancelled, cancelReq, cancelMark>>
memoryVars == <<store, recalled, patterned, rag, context, clock, returned, previous,
                txn, lock>>
writeVars == <<txn, lock>>
toolVars == <<risk, calc>>
serverVars == <<concurrent, settingsGuard, mode, enable, orch, asyncGlobal, otrace,
                ocallback, queue>>

\* Orchestrator objects: the synchronous singleton, and the AsyncAgentOrchestrator
\* constructed while request r was being served (at most one per request).
SyncOrch == 0
NoOrch == -1
Orchs == 0..MaxRuns

\* AgentTrace: the fields that matter here.  input stands for input_summary, the
\* text of the request the entry was recorded for.
TraceEntry(r, k, ok, err) == [input |-> r, stage |-> k, success |-> ok, error |-> err]

NoFuture == [state |-> "none", should_continue |-> TRUE, internal_error |-> FALSE,
             parsed |-> NoParsed,
             verification |-> NoVerification]

NoOutcome ==
    [kind |-> "none", message |-> "", cause |-> 0,
     final_answer |-> FALSE, explanation |-> FALSE, confidence |-> 0,
     requires_human_review |-> FALSE, hitl_reasons |-> <<>>, has_reasons |-> FALSE,
     agent_trace |-> <<>>]

NoSafety == [should_continue |-> TRUE, error |-> FALSE]

NoMark == [at |-> -1, stage |-> 0, queued |-> 0, again |-> FALSE]

\* ------------------------------------------------------------ memory: data
\* Texts are sequences of words.  The vocabulary has a stop-word written with a
\* capital, a token that ends in a question mark, a capitalised keyword and a
\* token too short to be a keyword.
Words == {"Solve", "x+1=2?", "Integral", "x"}
Texts == UNION {[1..n -> Words] : n \in 0..MaxWords}
\* The stored questions: one word each, either of the two keywords as written.
Questions == {<<"x+1=2?">>, <<"Integral">>}

\* Topics as written by the router or the caller; None is Python's None.
None == "None"
Topics == {"algebra", "Algebra"}
PatternTopics == {"Algebra", "calculus"}
Feedbacks == {None, "correct", "incorrect", "rejected"}
Comments == {None, "comment"}
Ids == 1..MaxEntries

\* str.lower()
Lower(w) ==
    CASE w = "Solve" -> "solve"
      [] w = "Hack" -> "hack"
      [] w = "Attack" -> "attack"
      [] w = "Integral" -> "integral"
      [] w = "Algebra" -> "algebra"
      [] OTHER -> w

\* str.replace('?', '').replace('.', '')
Strip(w) == IF w = "x+1=2?" THEN "x+1=2" ELSE w

\* len(w)
WordLen(w) ==
    CASE w = "x" -> 1
      [] w = "solve" -> 5
      [] w = "x+1=2" -> 5
      [] w = "x+1=2?" -> 6
      [] w = "algebra" -> 7
      [] OTHER -> 8

\* The members of stop_words that the vocabulary can produce.
StopWords == {"solve"}

\* keywords[:3]
KEYWORD_LIMIT == 3

\* get_combined_context asks for two patterns and two similar problems.
COMBINED_LIMIT == 2

\* What the vector store may hold for a query.
Documents == {<<>>, <<"doc">>}

\* A row of memory_entries, as the solve endpoints build it: created_at and
\* updated_at are the instant of construction, so created_at grows with the
\* position of the row.  original_input is the request the row was stored for
\* (0 where the request does not matter).  The columns left out (final_answer,
\* confidence and the JSON columns) are written once and copied like topic.
MemoryEntry(i, topic, question, review, now) ==
    [id |-> i, original_input |-> 0, topic |-> topic, parsed_question |-> question,
     requires_human_review |-> review, user_feedback |-> None,
     feedback_comment |-> None, created_at |-> now, updated_at |-> now]

NoPatterns == [called |-> FALSE, topic |-> None, limit |-> 0, entries |-> <<>>,
               patterns |-> <<>>]

\* A call of get_combined_context and what SolverAgent._retrieve_context made of
\* it.  The empty list stands for the None the solver puts in its place.
NoContext == [called |-> FALSE, topic |-> None, initialized |-> FALSE, index_failed |-> FALSE,
              store_failed |-> FALSE, raised |-> FALSE,
              rag_contexts |-> <<>>, memory_patterns |-> <<>>,
              solver_contexts |-> <<>>, solver_patterns |-> <<>>]

\* A writer: a server process inside one call of store_entry or update_feedback.
Writers == 1..MaxWriters
NoCall == [op |-> "none"]
NoTxn == [state |-> "idle", call |-> NoCall, pending |-> <<>>, ok |-> FALSE,
          during |-> "idle"]

\* Texts for the guardrail: pieces written one after the other, so that a word
\* can lie inside a longer one ("Hack" "er") and a phrase needs its blank.
Pieces == {"Hack", "er", " ", "ignore", "instructions", "personal", "data", "Attack",
           "game", "Solve"}
RiskTexts == UNION {[1..n -> Pieces] : n \in 0..MaxPieces}
NoRisk == [called |-> FALSE, text |-> <<>>, level |-> "low"]

NoCalc == [called |-> FALSE, expression |-> <<>>, raised |-> FALSE,
           value |-> [num |-> 0, den |-> 1, exp |-> 0, rounded |-> FALSE]]

NoReturn == [op |-> "none", id |-> 0, ok |-> FALSE]

NoRecall == [called |-> FALSE, query |-> <<>>, extracted |-> <<>>, keywords |-> <<>>, topic |-> None, limit |-> 0,
             topic_results |-> <<>>, result |-> <<>>]

Init ==
    /\ concurrent = FALSE
    /\ settingsGuard \in BOOLEAN
    /\ mode = [r \in Runs |-> "none"]
    /\ enable = [r \in Runs |-> FALSE]
    /\ phase = [r \in Runs |-> "idle"]
    /\ cur = [r \in Runs |-> 0]
    /\ fut = [r \in Runs |-> NoFuture]
    /\ safety = [r \in Runs |-> NoSafety]
    /\ parsed = [r \in Runs |-> NoParsed]
    /\ verification = [r \in Runs |-> NoVerification]
    /\ orch = [r \in Runs |-> NoOrch]
    /\ asyncGlobal = NoOrch
    /\ otrace = [o \in Orchs |-> <<>>]
    /\ ocallback = [o \in Orchs |-> 0]
    /\ outcome = [r \in Runs |-> NoOutcome]
    /\ invoked = [r \in Runs |-> <<>>]
    /\ executing = [r \in Runs |-> {}]
    /\ queue = [r \in Runs |-> <<>>]
    /\ events = [r \in Runs |-> <<>>]
    /\ gen = [r \in Runs |-> "none"]
    /\ is_cancelled = [r \in Runs |-> FALSE]
    /\ cancelReq = [r \in Runs |-> FALSE]
    /\ cancelMark = [r \in Runs |-> NoMark]
    /\ store = <<>>
    /\ recalled = NoRecall
    /\ patterned = NoPatterns
    /\ rag = [initialized |-> FALSE]
    /\ context = NoContext
    /\ clock = 0
    /\ returned = NoReturn
    /\ previous = <<>>
    /\ txn = [w \in Writers |-> NoTxn]
    /\ lock = 0
    /\ risk = NoRisk
    /\ calc = NoCalc

\* The same server under overlapping requests.
InitOverlap ==
    /\ concurrent = TRUE
    /\ settingsGuard \in BOOLEAN
    /\ mode = [r \in Runs |-> "none"]
    /\ enable = [r \in Runs |-> FALSE]
    /\ phase = [r \in Runs |-> "idle"]
    /\ cur = [r \in Runs |-> 0]
    /\ fut = [r \in Runs |-> NoFuture]
    /\ safety = [r \in Runs |-> NoSafety]
    /\ parsed = [r \in Runs |-> NoParsed]
    /\ verification = [r \in Runs |-> NoVerification]
    /\ orch = [r \in Runs |-> NoOrch]
    /\ asyncGlobal = NoOrch
    /\ otrace = [o \in Orchs |-> <<>>]
    /\ ocallback = [o \in Orchs |-> 0]
    /\ outcome = [r \in Runs |-> NoOutcome]
    /\ invoked = [r \in Runs |-> <<>>]
    /\ executing = [r \in Runs |-> {}]
    /\ queue = [r \in Runs |-> <<>>]
    /\ events = [r \in Runs |-> <<>>]
    /\ gen = [r \in Runs |-> "none"]
    /\ is_cancelled = [r \in Runs |-> FALSE]
    /\ cancelReq = [r \in Runs |-> FALSE]
    /\ cancelMark = [r \in Runs |-> NoMark]
    /\ store = <<>>
    /\ recalled = NoRecall
    /\ patterned = NoPatterns
    /\ rag = [initialized |-> FALSE]
    /\ context = NoContext
    /\ clock = 0
    /\ returned = NoReturn
    /\ previous = <<>>
    /\ txn = [w \in Writers |-> NoTxn]
    /\ lock = 0
    /\ risk = NoRisk
    /\ calc = NoCalc

\* ------------------------------------------------------------ stage calls
\* The responses drawn for the parser and the verifier.  Under overlapping
\* requests one response each is enough: what is examined there is which
\* entries reach which trace and which queue.
ParserAnswers ==
    IF concurrent
    THEN {[ambiguities |-> 0, needs_clarification |-> FALSE]}
    ELSE ParserResponses
VerifierAnswers ==
    IF concurrent
    THEN {[confidence |-> 100, issues |-> 0, requires_human_review |-> FALSE]}
    ELSE VerifierResponses

\* What happens inside GuardrailAgent.execute: something raises (the quick
\* check, the completion service, the validation of the output), or the
\* service answers, with something that is no mapping, with a mapping without
\* should_continue, or with should_continue set.
GuardrailAnswers ==
    {[raised |-> TRUE, valid |-> FALSE, has_flag |-> FALSE, should_continue |-> FALSE]} \cup
    {[raised |-> FALSE, valid |-> FALSE, has_flag |-> FALSE, should_continue |-> FALSE]} \cup
    {[raised |-> FALSE, valid |-> TRUE, has_flag |-> FALSE, should_continue |-> FALSE]} \cup
    {[raised |-> FALSE, valid |-> TRUE, has_flag |-> TRUE, should_continue |-> b] : b \in BOOLEAN}

\* A guardrail without its except clause: the error leaves execute.
GuardrailExecute_Propagate(resp) ==
    IF resp.raised
    THEN [NoFuture EXCEPT !.state = "raise", !.internal_error = TRUE]
    ELSE [NoFuture EXCEPT !.state = "ok",
                          !.should_continue = IF resp.valid /\ resp.has_flag
                                              THEN resp.should_continue ELSE TRUE]

\* GuardrailAgent.execute: response.get("should_continue", True) of the
\* service's answer ({} for an answer that is no mapping); `except Exception`
\* returns should_continue=True with the error in the metadata.
GuardrailExecute(resp) ==
    IF resp.raised
    THEN [NoFuture EXCEPT !.state = "ok", !.should_continue = TRUE, !.internal_error = TRUE]
    ELSE [NoFuture EXCEPT !.state = "ok",
                          !.should_continue = IF resp.valid /\ resp.has_flag
                                              THEN resp.should_continue ELSE TRUE]

\* BaseAgent.run for stage k: the outcomes of one call.  GuardrailAgent.execute
\* catches every exception and answers "safe, continue"; the other agents
\* re-raise what their execute raises.
AgentRun(k) ==
    IF k = GUARDRAIL
    THEN {GuardrailExecute(resp) : resp \in GuardrailAnswers}
    ELSE {[NoFuture EXCEPT !.state = "raise"]} \cup
         (IF k = PARSER
          THEN {[NoFuture EXCEPT !.state = "ok", !.parsed = ParserExecute(resp)] :
                    resp \in ParserAnswers}
          ELSE IF k = VERIFIER
          THEN {[NoFuture EXCEPT !.state = "ok", !.verification = VerifierExecute(resp)] :
                    resp \in VerifierAnswers}
          ELSE {[NoFuture EXCEPT !.state = "ok"]})

\* Inputs built from the output of the preceding stage alone.
StageInput_Adjacent(k) == IF k > PARSER THEN {k - 1} ELSE {}

\* The stages whose outputs execute_pipeline puts into the input of stage k:
\* GuardrailInput(raw_text) and ParserInput(raw_text, context) hold the request
\* only, IntentRouterInput(parsed), SolverInput(parsed, routing),
\* VerifierInput(parsed, solution), ExplainerInput(parsed, solution, verification).
StageInput(k) ==
    IF k = ROUTER THEN {PARSER}
    ELSE IF k = SOLVER THEN {PARSER, ROUTER}
    ELSE IF k = VERIFIER THEN {PARSER, SOLVER}
    ELSE IF k = EXPLAINER THEN {PARSER, SOLVER, VERIFIER}
    ELSE {}

\* A guardrail switched by the request's flag alone.
FirstStage_RequestFlagOnly(e) == IF e THEN GUARDRAIL ELSE PARSER

\* `if input_data.enable_guardrails and settings.ENABLE_GUARDRAILS`
FirstStage(e) == IF e /\ settingsGuard THEN GUARDRAIL ELSE PARSER

Raised(kind, message, cause) ==
    [NoOutcome EXCEPT !.kind = kind, !.message = message, !.cause = cause]

\* `raise GuardrailViolation(f"Content policy violation: ...")`
GuardrailViolation == Raised("GuardrailViolation", "Content policy violation", 0)
\* what agent.run raised in stage k
StageError(k) == Raised("StageError", "stage failed", k)

\* An exception leaves execute_pipeline: agent_trace then holds what self.trace
\* held at that moment (the trace is not handed to the caller).
Leaving(exc, tr) == [exc EXCEPT !.agent_trace = tr]

\* An except clause without the `except GuardrailViolation: raise` arm.
SyncExcept_WrapAll(exc) == Raised("AgentError", "Pipeline failed", exc.cause)

\* The except clauses of AgentOrchestrator.execute_pipeline.
SyncExcept(exc) ==
    IF exc.kind = "GuardrailViolation"
    THEN exc
    ELSE Raised("AgentError", "Pipeline failed", exc.cause)

\* The except clauses of AsyncAgentOrchestrator.execute_pipeline.
AsyncExcept(exc) ==
    IF exc.kind = "GuardrailViolation"
    THEN exc
    ELSE Raised("AgentError", "Pipeline failed", exc.cause)

\* The reason tags appended in the opposite order.
HitlReasons_VerifierFirst(p, v) ==
    (IF v.requires_human_review THEN <<"verifier_low_confidence">> ELSE <<>>)
      \o (IF p.requires_human_review THEN <<"parser_ambiguity">> ELSE <<>>)

\* "Build final output" of AgentOrchestrator.execute_pipeline.
HitlReasons(p, v) ==
    (IF p.requires_human_review THEN <<"parser_ambiguity">> ELSE <<>>)
      \o (IF v.requires_human_review THEN <<"verifier_low_confidence">> ELSE <<>>)

\* The synchronous output built the way the async orchestrator builds its own.
SyncBuildOutput_VerifierOnly(p, v, tr) ==
    [NoOutcome EXCEPT !.kind = "result",
                      !.final_answer = TRUE,
                      !.explanation = TRUE,
                      !.confidence = v.confidence,
                      !.requires_human_review = v.requires_human_review,
                      !.hitl_reasons = HitlReasons(p, v),
                      !.has_reasons = TRUE,
                      !.agent_trace = tr]

SyncBuildOutput(p, v, tr) ==
    [NoOutcome EXCEPT !.kind = "result",
                      !.final_answer = TRUE,
                      !.explanation = TRUE,
                      !.confidence = v.confidence,
                      !.requires_human_review = (Len(HitlReasons(p, v)) > 0),
                      !.hitl_reasons = HitlReasons(p, v),
                      !.has_reasons = TRUE,
                      !.agent_trace = tr]

\* "Build final output" of AsyncAgentOrchestrator.execute_pipeline: no
\* hitl_reasons in the metadata, requires_human_review from the verifier alone.
AsyncBuildOutput(p, v, tr) ==
    [NoOutcome EXCEPT !.kind = "result",
                      !.final_answer = TRUE,
                      !.explanation = TRUE,
                      !.confidence = v.confidence,
                      !.requires_human_review = v.requires_human_review,
                      !.agent_trace = tr]

\* A chain that stops at a Parse review signal.
Ends_OnReview(res, k) ==
    \/ res.state = "raise"
    \/ res.state = "ok" /\ k = GUARDRAIL /\ ~res.should_continue
    \/ k = EXPLAINER
    \/ res.state = "ok" /\ k = PARSER /\ res.parsed.requires_human_review

\* Whether execute_pipeline makes no further stage call after stage k answered
\* res: the stage raised, the guardrail said not to continue, or k was the last
\* stage.  Nothing else leaves the chain.
Ends(res, k) ==
    \/ res.state = "raise"
    \/ res.state = "ok" /\ k = GUARDRAIL /\ ~res.should_continue
    \/ k = EXPLAINER

\* ------------------------------------------------------------- scheduling
\* /solve calls the synchronous pipeline inside the event loop: while it runs,
\* no coroutine of the process takes a step.
LoopFree == \A q \in Runs : ~(mode[q] = "sync" /\ phase[q] = "call")

\* Slots are taken in order; without `concurrent` the process serves one request.
CanStart(r) ==
    /\ mode[r] = "none"
    /\ LoopFree
    /\ \A q \in Runs : q < r => mode[q] # "none"
    /\ concurrent \/ \A q \in Runs : mode[q] = "none"

\* ---------------------------------------------- the endpoints' memory entry
\* dict.get(key, default)
Get(d, key, default) == IF key \in DOMAIN d THEN d[key] ELSE default

\* request.text, and the cleaned problem_text the Parse stage makes of it.
RequestText(r) == <<"Solve", "x+1=2?">>
ProblemText(r) == <<"x+1=2?">>

\* The keys of PipelineOutput.metadata as the two orchestrators write them
\* (values other than the topic do not matter here).
SyncMetadata ==
    [problem_type |-> TRUE, difficulty |-> TRUE, topic |-> "algebra", tools_used |-> TRUE,
     is_correct |-> TRUE, difficulty_rating |-> TRUE, step_by_step |-> TRUE,
     key_concepts |-> TRUE, common_mistakes |-> TRUE, hitl_reasons |-> TRUE,
     parser_ambiguities |-> TRUE, verifier_issues |-> TRUE]
AsyncMetadata ==
    [problem_type |-> TRUE, difficulty |-> TRUE, topic |-> "algebra", tools_used |-> TRUE,
     is_correct |-> TRUE, difficulty_rating |-> TRUE, step_by_step |-> TRUE,
     key_concepts |-> TRUE, common_mistakes |-> TRUE, execution_mode |-> TRUE]

\* A conversion that takes the parsed question from the Parse stage's output.
OutputMetadata_FromParser(metadata, r) ==
    [k \in DOMAIN metadata \cup {"parsed_question"} |->
        IF k = "parsed_question" THEN ProblemText(r) ELSE metadata[k]]

\* solve_problem and solve_problem_async, "Convert to dict for API response":
\* {**result.metadata, "parsed_question": result.metadata.get("problem_text", "")}
OutputMetadata(metadata, r) ==
    [k \in DOMAIN metadata \cup {"parsed_question"} |->
        IF k = "parsed_question" THEN Get(metadata, "problem_text", <<>>) ELSE metadata[k]]

\* Nothing is written to the memory by this step.
NoStore == UNCHANGED <<store, clock, returned, recalled, patterned, context>>

\* An endpoint that returns the result without storing it.
StoreResult_Skip(r, result) == NoStore

\* "Store result in memory" of solve, solve_async and the event_generator of
\* solve_stream: the MemoryEntry built from the request and the result dict,
\* and store_entry (a fresh id, created now).
StoreResult(r, result) ==
    LET metadata == OutputMetadata(IF mode[r] = "sync" THEN SyncMetadata ELSE AsyncMetadata, r)
        entry == [MemoryEntry(Len(store) + 1,
                              Get(metadata, "topic", ""),
                              Get(metadata, "parsed_question", RequestText(r)),
                              result.requires_human_review,
                              clock)
                    EXCEPT !.original_input = r]
    IN  /\ store' = Append(store, entry)
        /\ clock' = clock + 1
        /\ returned' = [op |-> "store_entry", id |-> Len(store) + 1, ok |-> TRUE]
        /\ recalled' = NoRecall
        /\ patterned' = NoPatterns
        /\ context' = NoContext

\* ------------------------------------------------- synchronous orchestrator
\* solve_problem: get_orchestrator(), then execute_pipeline up to its first
\* _execute_agent call (`self.trace = []`).
SyncStart(r) ==
    /\ CanStart(r)
    /\ \E e \in BOOLEAN :
          /\ enable' = [enable EXCEPT ![r] = e]
          /\ cur' = [cur EXCEPT ![r] = FirstStage(e)]
    /\ mode' = [mode EXCEPT ![r] = "sync"]
    /\ orch' = [orch EXCEPT ![r] = SyncOrch]
    /\ otrace' = [otrace EXCEPT ![SyncOrch] = <<>>]
    /\ phase' = [phase EXCEPT ![r] = "call"]
    /\ UNCHANGED <<memoryVars, toolVars, concurrent, settingsGuard, fut, safety, parsed, verification,
                   asyncGlobal, ocallback, outcome, invoked, executing, queue>>
    /\ UNCHANGED streamVars

\* One _execute_agent call of AgentOrchestrator and what execute_pipeline does
\* with its result, up to the next call: the trace entry, the guardrail veto,
\* the final output, the except clauses; with the final output solve_problem
\* returns and the endpoint stores its entry.
SyncStage(r) ==
    /\ mode[r] = "sync" /\ phase[r] = "call"
    /\ \E res \in AgentRun(cur[r]) :
        LET k == cur[r]
            tr == Append(otrace[orch[r]],
                         IF res.state = "ok" THEN TraceEntry(r, k, TRUE, "")
                                             ELSE TraceEntry(r, k, FALSE, "stage failed"))
            p == IF res.state = "ok" /\ k = PARSER THEN res.parsed ELSE parsed[r]
            v == IF res.state = "ok" /\ k = VERIFIER THEN res.verification
                                                   ELSE verification[r]
            veto == res.state = "ok" /\ k = GUARDRAIL /\ ~res.should_continue
            ends == Ends(res, k)
        IN  /\ invoked' = [invoked EXCEPT ![r] = Append(@, k)]
            /\ executing' = executing
            /\ otrace' = [otrace EXCEPT ![orch[r]] = tr]
            /\ parsed' = [parsed EXCEPT ![r] = p]
            /\ verification' = [verification EXCEPT ![r] = v]
            /\ safety' = [safety EXCEPT ![r] =
                              IF k = GUARDRAIL
                              THEN [should_continue |-> res.should_continue,
                                    error |-> res.internal_error]
                              ELSE @]
            /\ phase' = [phase EXCEPT ![r] = IF ends THEN "done" ELSE "call"]
            /\ cur' = [cur EXCEPT ![r] = IF ends THEN k ELSE k + 1]
            /\ outcome' = [outcome EXCEPT ![r] =
                    IF res.state = "raise" THEN Leaving(SyncExcept(StageError(k)), tr)
                    ELSE IF veto THEN Leaving(SyncExcept(GuardrailViolation), tr)
                    ELSE IF k = EXPLAINER THEN SyncBuildOutput(p, v, tr)
                    ELSE @]
    /\ IF outcome'[r].kind = "result" THEN StoreResult(r, outcome'[r]) ELSE NoStore
    /\ UNCHANGED <<rag, previous, writeVars, toolVars, concurrent, settingsGuard, mode, enable, fut, orch,
                   asyncGlobal, ocallback, queue>>
    /\ UNCHANGED streamVars

\* ------------------------------------------------------ progress events
\* An update that leaves the trace entry out.
AgentUpdate_NoEntry(k, status, entry) ==
    [type |-> "agent_update", stage |-> k, status |-> status,
     input |-> 0, success |-> TRUE, message |-> ""]

\* The dict progress_callback puts on the queue, and the terminal events of
\* solve_problem_streaming.  input is data.input_summary ("" when data is None).
AgentUpdate(k, status, entry) ==
    [type |-> "agent_update", stage |-> k, status |-> status,
     input |-> entry.input, success |-> entry.success, message |-> entry.error]
NoData == [input |-> 0, success |-> TRUE, error |-> ""]
Terminal(type, message, cause) ==
    [type |-> type, stage |-> cause, status |-> "", input |-> 0, success |-> TRUE,
     message |-> message]
IsTerminal(ev) == ev.type \in {"final_result", "error", "cancelled"}

\* A callback that puts the update on the queue whatever is_cancelled says.
Notify_Unconditional(q, o, ev) ==
    IF ocallback[o] = 0
    THEN q
    ELSE [q EXCEPT ![ocallback[o]] = Append(@, ev)]

\* AsyncAgentOrchestrator._notify_progress on orchestrator o, then the
\* progress_callback closure of solve_problem_streaming (`if is_cancelled: return`).
Notify(q, o, ev) ==
    IF ocallback[o] = 0 \/ is_cancelled[ocallback[o]]
    THEN q
    ELSE [q EXCEPT ![ocallback[o]] = Append(@, ev)]

\* ------------------------------------------------------ async orchestrator
\* A call that would hand the following stage to the executor in the same breath.
Offload_WithNext(ex, r, k) == [ex EXCEPT ![r] = @ \cup {k, k + 1}]

\* `loop.run_in_executor(None, agent.run, input_data)`: agent.run of stage k
\* starts in a worker thread.
Offload(ex, r, k) == [ex EXCEPT ![r] = @ \cup {k}]

\* solve_problem_async up to the first await of execute_pipeline:
\* get_async_orchestrator(progress_callback) (a new orchestrator when there is
\* none or when a callback is given), `self.trace = []`, the "started"
\* notification of the first stage and its run_in_executor.  cb is the request
\* whose callback is passed (0: none).
AsyncBegin(r, e, cb) ==
    LET fresh == asyncGlobal = NoOrch \/ cb # 0
        o == IF fresh THEN r ELSE asyncGlobal
        cbs == IF fresh THEN [ocallback EXCEPT ![r] = cb] ELSE ocallback
        k == FirstStage(e)
    IN  /\ asyncGlobal' = o
        /\ ocallback' = cbs
        /\ orch' = [orch EXCEPT ![r] = o]
        /\ otrace' = [otrace EXCEPT ![o] = <<>>]
        /\ cur' = [cur EXCEPT ![r] = k]
        /\ phase' = [phase EXCEPT ![r] = "await"]
        /\ fut' = [fut EXCEPT ![r] = [NoFuture EXCEPT !.state = "running"]]
        /\ invoked' = [invoked EXCEPT ![r] = Append(@, k)]
        /\ executing' = Offload(executing, r, k)
        /\ queue' = IF cbs[o] = 0 \/ is_cancelled[cbs[o]]
                    THEN queue
                    ELSE [queue EXCEPT ![cbs[o]] =
                              Append(@, AgentUpdate(k, "started", NoData))]

\* POST /solve/async: solve_problem_async without a callback.
AsyncStart(r) ==
    /\ CanStart(r)
    /\ mode' = [mode EXCEPT ![r] = "async"]
    /\ \E e \in BOOLEAN :
          /\ enable' = [enable EXCEPT ![r] = e]
          /\ AsyncBegin(r, e, 0)
    /\ UNCHANGED <<memoryVars, toolVars, concurrent, settingsGuard, safety, parsed, verification, outcome>>
    /\ UNCHANGED streamVars

\* The worker thread of run_in_executor finishes agent.run.  A thread cannot be
\* interrupted: the call also finishes when its task has been cancelled.
WorkerRun(r) ==
    /\ fut[r].state = "running"
    /\ \E res \in AgentRun(cur[r]) : fut' = [fut EXCEPT ![r] = res]
    /\ executing' = [executing EXCEPT ![r] = @ \ {cur[r]}]
    /\ UNCHANGED <<memoryVars, toolVars, concurrent, settingsGuard, mode, enable, phase, cur, safety, parsed,
                   verification, orch, asyncGlobal, otrace, ocallback, outcome, invoked,
                   queue>>
    /\ UNCHANGED streamVars

\* The task resumes from `await loop.run_in_executor(...)` with the call's result
\* or exception and runs to its next await or to its end: the rest of
\* _execute_agent_async (trace entry, "completed"/"failed" notification), then
\* execute_pipeline up to the next stage's run_in_executor, or the final output,
\* or the except clauses.  With the final output solve_problem_async returns:
\* to solve_async, which stores its entry, or into the result of solve_task.
AsyncResume(r) ==
    /\ mode[r] \in {"async", "stream"} /\ phase[r] = "await"
    /\ fut[r].state \in {"ok", "raise"}
    /\ ~cancelReq[r]
    /\ LoopFree
    /\ LET res == fut[r]
           k == cur[r]
           o == orch[r]
           entry == IF res.state = "ok" THEN TraceEntry(r, k, TRUE, "")
                                        ELSE TraceEntry(r, k, FALSE, "stage failed")
           tr == Append(otrace[o], entry)
           p == IF res.state = "ok" /\ k = PARSER THEN res.parsed ELSE parsed[r]
           v == IF res.state = "ok" /\ k = VERIFIER THEN res.verification
                                                  ELSE verification[r]
           veto == res.state = "ok" /\ k = GUARDRAIL /\ ~res.should_continue
           ends == Ends(res, k)
           q1 == Notify(queue, o, AgentUpdate(k, IF res.state = "ok" THEN "completed"
                                                                    ELSE "failed", entry))
       IN  /\ otrace' = [otrace EXCEPT ![o] = tr]
           /\ parsed' = [parsed EXCEPT ![r] = p]
           /\ verification' = [verification EXCEPT ![r] = v]
           /\ safety' = [safety EXCEPT ![r] =
                             IF k = GUARDRAIL
                             THEN [should_continue |-> res.should_continue,
                                   error |-> res.internal_error]
                             ELSE @]
           /\ phase' = [phase EXCEPT ![r] = IF ends THEN "done" ELSE "await"]
           /\ cur' = [cur EXCEPT ![r] = IF ends THEN k ELSE k + 1]
           /\ fut' = [fut EXCEPT ![r] =
                          IF ends THEN NoFuture ELSE [NoFuture EXCEPT !.state = "running"]]
           /\ invoked' = [invoked EXCEPT ![r] = IF ends THEN @ ELSE Append(@, k + 1)]
           /\ executing' = IF ends THEN executing ELSE Offload(executing, r, k + 1)
           /\ queue' = IF ends THEN q1
                       ELSE Notify(q1, o, AgentUpdate(k + 1, "started", NoData))
           /\ outcome' = [outcome EXCEPT ![r] =
                   IF res.state = "raise" THEN Leaving(AsyncExcept(StageError(k)), tr)
                   ELSE IF veto THEN Leaving(AsyncExcept(GuardrailViolation), tr)
                   ELSE IF k = EXPLAINER THEN AsyncBuildOutput(p, v, tr)
                   ELSE @]
    /\ IF mode[r] = "async" /\ outcome'[r].kind = "result"
       THEN StoreResult(r, outcome'[r]) ELSE NoStore
    /\ UNCHANGED <<rag, previous, writeVars, toolVars, concurrent, settingsGuard, mode, enable, orch,
                   asyncGlobal, ocallback>>
    /\ UNCHANGED streamVars

\* ---------------------------------------------------- streaming controller
\* The terminal event solve_problem_streaming yields for what `await solve_task`
\* gives: the result, a CancelledError, or any other exception as str(e).
TerminalOf(out) ==
    IF out.kind = "result" THEN Terminal("final_result", "", 0)
    ELSE IF out.kind = "cancelled" THEN Terminal("cancelled", "Operation was cancelled", 0)
    ELSE Terminal("error", out.message, out.cause)

CancelledEvent == Terminal("cancelled", "Operation was cancelled", 0)

\* POST /solve/stream: the consumer's first pull runs solve_problem_streaming to
\* its first wait_for: the queue, is_cancelled = False, create_task.
StreamStart(r) ==
    /\ CanStart(r)
    /\ mode' = [mode EXCEPT ![r] = "stream"]
    /\ \E e \in BOOLEAN : enable' = [enable EXCEPT ![r] = e]
    /\ phase' = [phase EXCEPT ![r] = "created"]
    /\ queue' = [queue EXCEPT ![r] = <<>>]
    /\ gen' = [gen EXCEPT ![r] = "poll"]
    /\ is_cancelled' = [is_cancelled EXCEPT ![r] = FALSE]
    /\ UNCHANGED <<memoryVars, toolVars, concurrent, settingsGuard, cur, fut, safety, parsed, verification,
                   orch, asyncGlobal, otrace, ocallback, outcome, invoked, executing,
                   events,
                   cancelReq, cancelMark>>

\* The first step of solve_task: solve_problem_async with the progress callback.
TaskBegin(r) ==
    /\ mode[r] = "stream" /\ phase[r] = "created"
    /\ LoopFree
    /\ AsyncBegin(r, enable[r], r)
    /\ UNCHANGED <<memoryVars, toolVars, concurrent, settingsGuard, mode, enable, safety, parsed, verification,
                   outcome>>
    /\ UNCHANGED streamVars

\* wait_for(progress_queue.get(), 0.1) returns an update, which is yielded.
\* A timeout changes nothing and goes round the loop: the task puts the last
\* update of its run on the queue in the step in which it ends, so the queue is
\* never found empty with the task done.
GenPollGet(r) ==
    /\ gen[r] = "poll" /\ queue[r] # <<>>
    /\ LoopFree
    /\ events' = [events EXCEPT ![r] = Append(@, Head(queue[r]))]
    /\ queue' = [queue EXCEPT ![r] = Tail(@)]
    /\ gen' = [gen EXCEPT ![r] = "yield_poll"]
    /\ UNCHANGED <<memoryVars, toolVars, concurrent, settingsGuard, mode, enable, orch, asyncGlobal, otrace,
                   ocallback, is_cancelled, cancelReq, cancelMark>>
    /\ UNCHANGED pipeVars

\* A generator that goes from the polling loop to the final result at once.
DrainOrFinal_NoDrain(r) ==
    /\ events' = [events EXCEPT ![r] = Append(@, TerminalOf(outcome[r]))]
    /\ queue' = queue
    /\ gen' = [gen EXCEPT ![r] = "yield_final"]

\* After the polling loop (`while not solve_task.done()` is false): one round of
\* "Get any remaining updates", or, the queue being empty, "Get final result".
DrainOrFinal(r) ==
    IF queue[r] # <<>>
    THEN /\ events' = [events EXCEPT ![r] = Append(@, Head(queue[r]))]
         /\ queue' = [queue EXCEPT ![r] = Tail(@)]
         /\ gen' = [gen EXCEPT ![r] = "yield_drain"]
    ELSE /\ events' = [events EXCEPT ![r] = Append(@, TerminalOf(outcome[r]))]
         /\ queue' = queue
         /\ gen' = [gen EXCEPT ![r] = "yield_final"]

\* The event_generator of solve_stream is handed the final result in this step:
\* `if update.get("type") == "final_result" and update.get("data")`.
YieldsFinalResult(r) ==
    /\ Len(events'[r]) = Len(events[r]) + 1
    /\ events'[r][Len(events'[r])].type = "final_result"

\* A generator that goes back to wait_for after every update, whether the task
\* has ended or not.
GenResume_KeepPolling(r) ==
    /\ gen[r] \in {"yield_poll", "yield_drain"}
    /\ LoopFree
    /\ IF gen[r] = "yield_poll"
       THEN /\ gen' = [gen EXCEPT ![r] = "poll"]
            /\ UNCHANGED <<events, queue>>
       ELSE DrainOrFinal(r)
    /\ IF YieldsFinalResult(r) THEN StoreResult(r, outcome[r]) ELSE NoStore
    /\ UNCHANGED <<rag, previous, writeVars, toolVars, concurrent, settingsGuard, mode, enable, orch,
                   asyncGlobal, otrace, ocallback, is_cancelled, cancelReq, cancelMark>>
    /\ UNCHANGED pipeVars

\* The consumer pulls again after an update: back to wait_for while the task
\* runs, else on to the remaining updates and the final result, for which the
\* endpoint stores its entry before passing it on.
GenResume(r) ==
    /\ gen[r] \in {"yield_poll", "yield_drain"}
    /\ LoopFree
    /\ IF gen[r] = "yield_poll" /\ phase[r] # "done"
       THEN /\ gen' = [gen EXCEPT ![r] = "poll"]
            /\ UNCHANGED <<events, queue>>
       ELSE DrainOrFinal(r)
    /\ IF YieldsFinalResult(r) THEN StoreResult(r, outcome[r]) ELSE NoStore
    /\ UNCHANGED <<rag, previous, writeVars, toolVars, concurrent, settingsGuard, mode, enable, orch,
                   asyncGlobal, otrace, ocallback, is_cancelled, cancelReq, cancelMark>>
    /\ UNCHANGED pipeVars

\* The consumer pulls after a terminal event: the generator returns.
GenReturn(r) ==
    /\ gen[r] \in {"yield_final", "yield_cancel"}
    /\ LoopFree
    /\ gen' = [gen EXCEPT ![r] = "done"]
    /\ UNCHANGED <<memoryVars, toolVars, concurrent, settingsGuard, mode, enable, orch, asyncGlobal, otrace,
                   ocallback, queue, events, is_cancelled, cancelReq, cancelMark>>
    /\ UNCHANGED pipeVars

\* A cancellation handler that first hands over the updates still queued.
ConsumerCancel_Drain(r) ==
    /\ gen[r] = "poll" /\ phase[r] # "created"
    /\ LoopFree
    /\ is_cancelled' = [is_cancelled EXCEPT ![r] = TRUE]
    /\ cancelMark' = [cancelMark EXCEPT ![r] =
            [at |-> Len(events[r]), stage |-> IF phase[r] = "await" THEN cur[r] ELSE 0,
             queued |-> Len(queue[r]), again |-> FALSE]]
    /\ queue' = [queue EXCEPT ![r] = <<>>]
    /\ IF phase[r] # "done"
       THEN /\ cancelReq' = [cancelReq EXCEPT ![r] = TRUE]
            /\ gen' = [gen EXCEPT ![r] = "ack"]
            /\ events' = [events EXCEPT ![r] = @ \o queue[r]]
       ELSE /\ cancelReq' = cancelReq
            /\ gen' = [gen EXCEPT ![r] = "yield_cancel"]
            /\ events' = [events EXCEPT ![r] = Append(@ \o queue[r], CancelledEvent)]
    /\ UNCHANGED <<memoryVars, toolVars, concurrent, settingsGuard, mode, enable, orch, asyncGlobal, otrace,
                   ocallback>>
    /\ UNCHANGED pipeVars

\* The consumer is cancelled while the generator waits in wait_for: the
\* CancelledError handlers of solve_problem_streaming.  is_cancelled is set,
\* solve_task.cancel() is called; with the task still running the generator
\* awaits it, else it yields the cancelled event at once.
ConsumerCancel(r) ==
    /\ gen[r] = "poll" /\ phase[r] # "created"
    /\ LoopFree
    /\ is_cancelled' = [is_cancelled EXCEPT ![r] = TRUE]
    /\ cancelMark' = [cancelMark EXCEPT ![r] =
            [at |-> Len(events[r]), stage |-> IF phase[r] = "await" THEN cur[r] ELSE 0,
             queued |-> Len(queue[r]), again |-> FALSE]]
    /\ IF phase[r] # "done"
       THEN /\ cancelReq' = [cancelReq EXCEPT ![r] = TRUE]
            /\ gen' = [gen EXCEPT ![r] = "ack"]
            /\ events' = events
       ELSE /\ cancelReq' = cancelReq
            /\ gen' = [gen EXCEPT ![r] = "yield_cancel"]
            /\ events' = [events EXCEPT ![r] = Append(@, CancelledEvent)]
    /\ UNCHANGED <<memoryVars, toolVars, concurrent, settingsGuard, mode, enable, orch, asyncGlobal, otrace,
                   ocallback, queue>>
    /\ UNCHANGED pipeVars

\* The CancelledError reaches the task at its run_in_executor await:
\* `except asyncio.CancelledError` of _execute_agent_async records the entry and
\* re-raises; no except clause of execute_pipeline or solve_problem_async
\* catches it.  The worker thread is not stopped.
TaskCancelled(r) ==
    /\ phase[r] = "await" /\ cancelReq[r]
    /\ LoopFree
    /\ otrace' = [otrace EXCEPT ![orch[r]] =
            Append(@, TraceEntry(r, cur[r], FALSE, "Execution cancelled by user"))]
    /\ outcome' = [outcome EXCEPT ![r] = Leaving(Raised("cancelled", "", 0), otrace'[orch[r]])]
    /\ phase' = [phase EXCEPT ![r] = "done"]
    /\ cancelReq' = [cancelReq EXCEPT ![r] = FALSE]
    /\ UNCHANGED <<memoryVars, toolVars, concurrent, settingsGuard, mode, enable, cur, fut, safety, parsed,
                   verification, orch, asyncGlobal, ocallback, invoked, executing, queue,
                   events,
                   gen, is_cancelled, cancelMark>>

\* A cancellation handler that returns without yielding the cancelled event.
GenAck_NoEvent(r) ==
    /\ gen[r] = "ack" /\ phase[r] = "done"
    /\ LoopFree
    /\ gen' = [gen EXCEPT ![r] = "yield_cancel"]
    /\ UNCHANGED <<memoryVars, toolVars, concurrent, settingsGuard, mode, enable, orch, asyncGlobal, otrace,
                   ocallback, queue, events, is_cancelled, cancelReq, cancelMark>>
    /\ UNCHANGED pipeVars

\* `await solve_task` in the cancellation handler returns (the task has ended
\* as cancelled); the cancelled event is yielded.
GenAck(r) ==
    /\ gen[r] = "ack" /\ phase[r] = "done"
    /\ LoopFree
    /\ events' = [events EXCEPT ![r] = Append(@, CancelledEvent)]
    /\ gen' = [gen EXCEPT ![r] = "yield_cancel"]
    /\ UNCHANGED <<memoryVars, toolVars, concurrent, settingsGuard, mode, enable, orch, asyncGlobal, otrace,
                   ocallback, queue, is_cancelled, cancelReq, cancelMark>>
    /\ UNCHANGED pipeVars

\* A second cancellation reaches the consumer while the generator awaits the
\* task.  Task.cancel() of a task that awaits another task passes the request
\* on to that task (solve_task.cancel() once more) and the awaiting coroutine
\* sees nothing until solve_task has ended: the await in the handler still
\* returns through `except asyncio.CancelledError: pass`, once.
ConsumerCancelAgain(r) ==
    /\ gen[r] = "ack" /\ phase[r] # "done"
    /\ ~cancelMark[r].again
    /\ LoopFree
    /\ cancelMark' = [cancelMark EXCEPT ![r].again = TRUE]
    /\ cancelReq' = [cancelReq EXCEPT ![r] = TRUE]
    /\ UNCHANGED <<memoryVars, toolVars, concurrent, settingsGuard, mode, enable, orch, asyncGlobal, otrace,
                   ocallback, queue, events, gen, is_cancelled>>
    /\ UNCHANGED pipeVars

\* The consumer stops pulling and the generator is closed at a yield:
\* GeneratorExit is no CancelledError, no handler runs.
ConsumerClose(r) ==
    /\ gen[r] \in {"yield_poll", "yield_drain", "yield_final", "yield_cancel"}
    /\ LoopFree
    /\ gen' = [gen EXCEPT ![r] = "closed"]
    /\ UNCHANGED <<memoryVars, toolVars, concurrent, settingsGuard, mode, enable, orch, asyncGlobal, otrace,
                   ocallback, queue, events, is_cancelled, cancelReq, cancelMark>>
    /\ UNCHANGED pipeVars

Next ==
    \/ \E r \in Runs : SyncStart(r)
    \/ \E r \in Runs : SyncStage(r)
    \/ \E r \in Runs : AsyncStart(r)
    \/ \E r \in Runs : WorkerRun(r)
    \/ \E r \in Runs : AsyncResume(r)
    \/ \E r \in Runs : StreamStart(r)
    \/ \E r \in Runs : TaskBegin(r)
    \/ \E r \in Runs : GenPollGet(r)
    \/ \E r \in Runs : GenResume(r)
    \/ \E r \in Runs : GenReturn(r)
    \/ \E r \in Runs : ConsumerCancel(r)
    \/ \E r \in Runs : TaskCancelled(r)
    \/ \E r \in Runs : GenAck(r)
    \/ \E r \in Runs : ConsumerCancelAgain(r)
    \/ \E r \in Runs : ConsumerClose(r)

Spec == Init /\ [][Next]_vars

\* The single request with the scheduling the program runs under.  The event
\* loop runs every callback that is ready (the task's steps, the generator's
\* wake-up from wait_for and from `await solve_task`); every stage call returns
\* or raises (the executor's worker, the blocking call of /solve); the consumer
\* of the stream, while it neither disconnects nor is cancelled, asks for the
\* next event.
Fairness ==
    \A r \in Runs :
        /\ WF_vars(SyncStage(r))
        /\ WF_vars(WorkerRun(r))
        /\ WF_vars(TaskBegin(r))
        /\ WF_vars(AsyncResume(r))
        /\ WF_vars(TaskCancelled(r))
        /\ WF_vars(GenPollGet(r))
        /\ WF_vars(GenResume(r))
        /\ WF_vars(GenReturn(r))
        /\ WF_vars(GenAck(r))

SpecLive == Init /\ [][Next]_vars /\ Fairness

\* The same server with /solve/async requests that overlap in time.
NextOverlap ==
    \/ \E r \in Runs : AsyncStart(r)
    \/ \E r \in Runs : WorkerRun(r)
    \/ \E r \in Runs : AsyncResume(r)

SpecOverlap == InitOverlap /\ [][NextOverlap]_vars

\* A /solve/stream request and, once its consumer has been cancelled,
\* /solve/async requests: get_async_orchestrator() without a callback answers
\* with the orchestrator the streaming request constructed, callback included,
\* so their notifications are late notifications of the cancelled stream.
NextLate ==
    \/ \E r \in Runs : StreamStart(r) /\ \A q \in Runs : mode[q] = "none"
    \/ \E r \in Runs : TaskBegin(r)
    \/ \E r \in Runs : AsyncStart(r) /\ \E q \in Runs : is_cancelled[q]
    \/ \E r \in Runs : WorkerRun(r)
    \/ \E r \in Runs : AsyncResume(r)
    \/ \E r \in Runs : GenPollGet(r)
    \/ \E r \in Runs : GenResume(r)
    \/ \E r \in Runs : GenReturn(r)
    \/ \E r \in Runs : ConsumerCancel(r)
    \/ \E r \in Runs : TaskCancelled(r)
    \/ \E r \in Runs : GenAck(r)
    \/ \E r \in Runs : ConsumerCancelAgain(r)

SpecLate == InitOverlap /\ [][NextLate]_vars

\* A /solve/stream request and, while its pipeline is in the verifier call or
\* after it, /solve/async requests; nothing is cancelled.
NextMixed ==
    \/ \E r \in Runs : StreamStart(r) /\ \A q \in Runs : mode[q] = "none"
    \/ \E r \in Runs : TaskBegin(r)
    \/ \E r \in Runs : AsyncStart(r) /\ \E q \in Runs : /\ mode[q] = "stream" /\ phase[q] = "await"
                                                    /\ cur[q] >= VERIFIER
    \/ \E r \in Runs : WorkerRun(r)
    \/ \E r \in Runs : AsyncResume(r)
    \/ \E r \in Runs : GenPollGet(r)
    \/ \E r \in Runs : GenResume(r)
    \/ \E r \in Runs : GenReturn(r)

SpecMixed == InitOverlap /\ [][NextMixed]_vars

\* -------------------------------------------------------- memory: the store
Min(S) == CHOOSE x \in S : \A y \in S : x <= y

\* s[:n] for n >= 0, and SQL's LIMIT n
Take(s, n) == SubSeq(s, 1, IF n < Len(s) THEN n ELSE Len(s))

\* ORDER BY created_at DESC, for rows kept in the order of their created_at
Reverse(s) == [i \in 1..Len(s) |-> s[Len(s) + 1 - i]]

\* parsed_question LIKE '%keyword%': a keyword occurs in a text when it occurs in
\* one of its words, whatever the letter case.
Occurs(kw, w) == Lower(w) = Lower(kw) \/ Strip(Lower(w)) = Lower(kw)
Like(text, kw) == \E i \in 1..Len(text) : Occurs(kw, text[i])

\* MemoryRepository.get_entries_by_topic: WHERE topic = ?, which SQLite compares
\* byte for byte.
get_entries_by_topic(rows, topic, limit) ==
    Take(Reverse(SelectSeq(rows, LAMBDA e : e.topic = topic)), limit)

\* MemoryRepository.search_by_text
search_by_text(rows, keyword, limit) ==
    Take(Reverse(SelectSeq(rows, LAMBDA e : Like(e.parsed_question, keyword))), limit)

\* MemoryRepository.get_correct_entries
get_correct_entries(rows, limit) ==
    Take(Reverse(SelectSeq(rows, LAMBDA e : e.user_feedback = "correct")), limit)

\* The results of earlier reads say nothing about a store that has changed.
ForgetReads ==
    /\ recalled' = NoRecall
    /\ patterned' = NoPatterns
    /\ context' = NoContext

\* No read has been looked at since the store last changed.
NothingRead == ~recalled.called /\ ~patterned.called /\ ~context.called

\* MemoryRepository.store_entry, for an entry built by one of the solve
\* endpoints: a fresh id, no feedback, created now.
StoreEntry(topic, question, review) ==
    /\ Len(store) < MaxEntries /\ clock < MaxClock
    /\ store' = Append(store, MemoryEntry(Len(store) + 1, topic, question, review, clock))
    /\ clock' = clock + 1
    /\ returned' = [op |-> "store_entry", id |-> Len(store) + 1, ok |-> TRUE]
    /\ ForgetReads
    /\ UNCHANGED <<rag, toolVars, serverVars,
                   pipeVars, streamVars>>

\* The UPDATE of update_feedback: the row with this id gets the feedback, the
\* comment and the time of the call; without such a row nothing changes.
update_feedback(rows, i, feedback, comment, now) ==
    IF i \in 1..Len(rows)
      THEN [rows EXCEPT ![i] = [@ EXCEPT !.user_feedback = feedback,
                                          !.feedback_comment = comment,
                                          !.updated_at = now]]
      ELSE rows

\* An update that forgets the updated_at column.
UpdateFeedback_KeepStamp(i, feedback, comment) ==
    /\ clock < MaxClock
    /\ store' = IF i \in 1..Len(store)
                  THEN [store EXCEPT ![i] = [@ EXCEPT !.user_feedback = feedback,
                                                      !.feedback_comment = comment]]
                  ELSE store
    /\ clock' = clock + 1
    /\ returned' = [op |-> "update_feedback", id |-> i, ok |-> TRUE]
    /\ ForgetReads
    /\ UNCHANGED <<rag, toolVars, serverVars,
                   pipeVars, streamVars>>

\* MemoryRepository.update_feedback with nobody else writing: the method returns
\* True whether or not a row had the id.
UpdateFeedback(i, feedback, comment) ==
    /\ clock < MaxClock
    /\ store' = update_feedback(store, i, feedback, comment, clock)
    /\ clock' = clock + 1
    /\ returned' = [op |-> "update_feedback", id |-> i, ok |-> TRUE]
    /\ ForgetReads
    /\ UNCHANGED <<rag, toolVars, serverVars,
                   pipeVars, streamVars>>

\* MemoryRepository.get_entry; NoEntry stands for the None it returns when no
\* row has the id.
NoEntry == [id |-> 0]
get_entry(rows, i) == IF i \in 1..Len(rows) THEN rows[i] ELSE NoEntry

\* A plain INSERT into a table without a key, for comparison.
InsertOrReplace_Append(rows, entry) == Append(rows, entry)

\* INSERT OR REPLACE of an entry that carries an id: the row with that id is
\* replaced by the entry, every column of it; without such a row it is inserted.
InsertOrReplace(rows, entry) ==
    IF \E k \in 1..Len(rows) : rows[k].id = entry.id
      THEN [k \in 1..Len(rows) |-> IF rows[k].id = entry.id THEN entry ELSE rows[k]]
      ELSE Append(rows, entry)

\* An approval that builds its entry anew, the topic falling back to its default.
Approved_DefaultTopic(entry, edited_text) ==
    [entry EXCEPT !.parsed_question = edited_text, !.requires_human_review = FALSE,
                  !.topic = ""]

\* What hitl_approve makes of the entry it has read before storing it again.
Approved(entry, edited_text) ==
    [entry EXCEPT !.parsed_question = edited_text, !.requires_human_review = FALSE]

\* POST /feedback/hitl/approve: 404 for an unknown id; the entry is stored again
\* only when edited text came with the request (an absent text and an empty one
\* are the same to `if request.edited_text`).
HitlApprove(i, edited_text) ==
    LET entry == get_entry(store, i)
    IN  /\ store' = IF entry # NoEntry /\ edited_text # <<>>
                      THEN InsertOrReplace(store, Approved(entry, edited_text))
                      ELSE store
        /\ returned' = [op |-> "hitl_approve", id |-> i, ok |-> entry # NoEntry]
        /\ ForgetReads
        /\ UNCHANGED <<rag, clock, toolVars, serverVars,
                   pipeVars, streamVars>>

\* The feedback endpoints on a store of entries of one topic: /correct and
\* /incorrect with or without a comment, /hitl/reject with its reason, and
\* /hitl/approve with or without edited text, each for any id.
NextStore ==
    \/ \E question \in Questions, review \in BOOLEAN :
          /\ Len(store) < MaxStoreEntries /\ clock < MaxStoreClock
          /\ StoreEntry("algebra", question, review) /\ previous' = store /\ UNCHANGED writeVars
    \/ \E i \in 1..MaxStoreEntries + 1, feedback \in {"correct", "incorrect"}, comment \in Comments :
          clock < MaxStoreClock /\ UpdateFeedback(i, feedback, comment) /\ previous' = store /\ UNCHANGED writeVars
    \/ \E i \in 1..MaxStoreEntries + 1 :
          clock < MaxStoreClock /\ UpdateFeedback(i, "rejected", "comment") /\ previous' = store /\ UNCHANGED writeVars
    \/ \E i \in 1..MaxStoreEntries + 1, edited_text \in Questions \cup {<<>>} :
          HitlApprove(i, edited_text) /\ previous' = store /\ UNCHANGED writeVars

SpecStore == Init /\ [][NextStore]_vars

\* ---------------------------------------------------------------------------
\* memory: two server processes writing to the same database file
\* ---------------------------------------------------------------------------
\* Every repository method opens its own connection and runs one statement in
\* one transaction: `with sqlite3.connect(path) as conn: conn.execute(...);
\* conn.commit()`.  The statement takes SQLite's write lock on the file, the
\* commit makes the rows visible and releases it.  A connection that finds the
\* lock taken waits, and gives up with "database is locked" when its timeout
\* runs out.

\* What a call makes of the rows it finds.
Apply(call, rows) ==
    IF call.op = "update_feedback"
      THEN update_feedback(rows, call.id, call.feedback, call.comment, call.now)
      ELSE InsertOrReplace(rows, call.entry)

\* A connection that writes without asking for the lock.
CanReserve_NoLock(w) == TRUE

\* The write lock is free.
CanReserve(w) == lock = 0

\* The rows before the first of the overlapping calls.
Remember == previous' = IF \A w \in Writers : txn[w].state = "idle" THEN store ELSE previous

\* What the other writers are doing when one enters its call.
During(w) ==
    IF \E v \in Writers \ {w} : txn[v].state = "reserved" THEN "reserved"
    ELSE IF \E v \in Writers \ {w} : txn[v].state = "called" THEN "called"
    ELSE IF \E v \in Writers \ {w} : txn[v].state = "done" THEN "done"
    ELSE "idle"

\* A process enters update_feedback: the arguments of the UPDATE are evaluated,
\* utcnow() among them.
CallUpdate(w, i, feedback, comment) ==
    /\ txn[w].state = "idle"
    /\ clock < MaxClock
    /\ txn' = [txn EXCEPT ![w] = [NoTxn EXCEPT
                  !.state = "called",
                  !.call = [op |-> "update_feedback", id |-> i, feedback |-> feedback,
                            comment |-> comment, now |-> clock],
                  !.during = During(w)]]
    /\ clock' = clock + 1
    /\ Remember
    /\ UNCHANGED <<store, lock, recalled, patterned, rag, context, returned,
                   toolVars, serverVars, pipeVars, streamVars>>

\* A process serving an approval with an edited text has read the entry and
\* enters store_entry with the changed entry.
CallStore(w, i, edited_text) ==
    /\ txn[w].state = "idle"
    /\ get_entry(store, i) # NoEntry
    /\ edited_text # <<>>
    /\ txn' = [txn EXCEPT ![w] = [NoTxn EXCEPT
                  !.state = "called",
                  !.call = [op |-> "store_entry",
                            entry |-> Approved(get_entry(store, i), edited_text)],
                  !.during = During(w)]]
    /\ Remember
    /\ UNCHANGED <<store, lock, clock, recalled, patterned, rag, context, returned,
                   toolVars, serverVars, pipeVars, streamVars>>

\* conn.execute: the statement takes the write lock and changes the rows in the
\* connection's own pages.
Execute(w) ==
    /\ txn[w].state = "called"
    /\ CanReserve(w)
    /\ lock' = w
    /\ txn' = [txn EXCEPT ![w].state = "reserved", ![w].pending = Apply(txn[w].call, store)]
    /\ UNCHANGED <<store, clock, recalled, patterned, rag, context, returned, previous,
                   toolVars, serverVars, pipeVars, streamVars>>

\* conn.execute while another connection holds the lock, and the timeout runs
\* out: OperationalError; update_feedback returns False, store_entry re-raises,
\* and nothing is written.
Busy(w) ==
    /\ txn[w].state = "called"
    /\ lock # 0
    /\ txn' = [txn EXCEPT ![w].state = "done", ![w].ok = FALSE]
    /\ UNCHANGED <<store, lock, clock, recalled, patterned, rag, context, returned,
                   previous, toolVars,
                   serverVars, pipeVars, streamVars>>

\* conn.commit: the changed rows replace the stored ones and the lock is free.
Commit(w) ==
    /\ txn[w].state = "reserved"
    /\ store' = txn[w].pending
    /\ lock' = IF lock = w THEN 0 ELSE lock
    /\ txn' = [txn EXCEPT ![w].state = "done", ![w].ok = TRUE]
    /\ ForgetReads
    /\ UNCHANGED <<clock, rag, returned, previous, toolVars, serverVars,
                   pipeVars, streamVars>>

NextWrites ==
    \/ \E question \in Questions :
          /\ \A w \in Writers : txn[w].state = "idle"
          /\ Len(store) < MaxStoreEntries /\ clock < MaxStoreClock
          /\ StoreEntry("algebra", question, TRUE) /\ UNCHANGED <<previous, writeVars>>
    \/ \E w \in Writers, i \in 1..MaxStoreEntries, feedback \in {"correct", "incorrect"},
          comment \in Comments :
          i <= Len(store) /\ CallUpdate(w, i, feedback, comment)
    \/ \E w \in Writers, i \in 1..MaxStoreEntries, edited_text \in Questions :
          CallStore(w, i, edited_text)
    \/ \E w \in Writers : Execute(w)
    \/ \E w \in Writers : Busy(w)
    \/ \E w \in Writers : Commit(w)

SpecWrites == Init /\ [][NextWrites]_vars

\* ---------------------------------------------------------------------------
\* guardrail: the quick risk assessment
\* ---------------------------------------------------------------------------
\* GuardrailAgent.RISK_KEYWORDS, each keyword in pieces.
RISK_KEYWORDS ==
    [high |-> <<<<"hack">>, <<"exploit">>, <<"bypass">>, <<"jailbreak">>,
                <<"ignore", " ", "instructions">>>>,
     medium |-> <<<<"personal", " ", "data">>, <<"private">>, <<"confidential">>,
                  <<"attack">>>>,
     low |-> <<<<"game">>, <<"story">>, <<"creative", " ", "writing">>, <<"non-math">>>>]

\* text.lower()
LowerText(text) == [i \in 1..Len(text) |-> Lower(text[i])]

\* keyword in text_lower
Contains(text, keyword) ==
    \E i \in 1..(Len(text) + 1 - Len(keyword)) :
        SubSeq(text, i, i + Len(keyword) - 1) = keyword

\* One pass of `for keyword in self.RISK_KEYWORDS[level]: if keyword in text_lower`
AnyKeyword(level, text_lower) ==
    \E k \in 1..Len(RISK_KEYWORDS[level]) : Contains(text_lower, RISK_KEYWORDS[level][k])

\* An assessment that looks for the medium keywords first.
quick_risk_assessment_MediumFirst(text) ==
    LET text_lower == LowerText(text)
    IN  IF AnyKeyword("medium", text_lower) THEN "medium"
        ELSE IF AnyKeyword("high", text_lower) THEN "high"
        ELSE "low"

\* GuardrailAgent._quick_risk_assessment
quick_risk_assessment(text) ==
    LET text_lower == LowerText(text)
    IN  IF AnyKeyword("high", text_lower) THEN "high"
        ELSE IF AnyKeyword("medium", text_lower) THEN "medium"
        ELSE IF AnyKeyword("low", text_lower) THEN "low"
        ELSE "low"

\* A call of _quick_risk_assessment.
QuickRisk(text) ==
    /\ risk' = [called |-> TRUE, text |-> text, level |-> quick_risk_assessment(text)]
    /\ UNCHANGED <<memoryVars, calc, serverVars, pipeVars, streamVars>>

\* The assessment keeps nothing between calls, so one call is looked at for each text.
NextRisk == \E text \in RiskTexts : ~risk.called /\ QuickRisk(text)

SpecRisk == Init /\ [][NextRisk]_vars

\* ---------------------------------------------------------------------------
\* tools: the calculator
\* ---------------------------------------------------------------------------
\* An expression is a numeral, an operator and a numeral.  A number is written
\* num / den * 2^exp, so that the large powers of two Python's integers hold
\* are at hand; a float carries `rounded` when it is the double nearest to that
\* number and not the number itself.

\* The largest power of two a float does not reach (sys.float_info.max_exp).
FLOAT_MAX_EXP == 1024

\* CalculatorTool.OPERATORS, and the operators among allowed_chars.
OPERATORS == {"+", "-", "*", "/", "**", "^"}

\* What is evaluated: the operators on small numerals, a character that is not
\* allowed, and the powers of two around the end of the float range.
Expressions ==
    {<<a, op, b>> : a \in 0..MaxOperand, op \in {"+", "-", "*", "/", "%"}, b \in 0..MaxOperand}
    \cup {<<a, op, b>> : a \in 0..MaxOperand, op \in {"**", "^"}, b \in 0..MaxExponent}
    \cup {<<2, op, b>> : op \in {"**", "^"}, b \in (MaxBigExponent - 1)..MaxBigExponent}

RECURSIVE Gcd(_, _)
Gcd(a, b) == IF b = 0 THEN a ELSE Gcd(b, a % b)

RECURSIVE IntPow(_, _)
IntPow(a, b) == IF b = 0 \/ a = 1 THEN 1 ELSE a * IntPow(a, b - 1)

\* a = OddPart(a) * 2^TwoExp(a), for a > 0
RECURSIVE OddPart(_)
OddPart(a) == IF a % 2 = 0 THEN OddPart(a \div 2) ELSE a
RECURSIVE TwoExp(_)
TwoExp(a) == IF a % 2 = 0 THEN 1 + TwoExp(a \div 2) ELSE 0

\* int.bit_length() of a natural number
RECURSIVE BitLength(_)
BitLength(n) == IF n = 0 THEN 0 ELSE 1 + BitLength(n \div 2)

Abs(n) == IF n < 0 THEN 0 - n ELSE n

\* A number is kept with odd num and den, the twos in exp; zero is 0 / 1 * 2^0.
Sign(n) == IF n < 0 THEN 0 - 1 ELSE 1
Number(n, d) ==
    IF n = 0 THEN [num |-> 0, den |-> 1, exp |-> 0]
    ELSE LET g == Gcd(Abs(n), d)
         IN  [num |-> Sign(n) * OddPart(Abs(n) \div g), den |-> OddPart(d \div g),
              exp |-> TwoExp(Abs(n) \div g) - TwoExp(d \div g)]

\* The integers of Python, which have no width.
PyInt(n) == Number(n, 1)
PyPow(a, b) ==
    IF a = 0 THEN PyInt(IF b = 0 THEN 1 ELSE 0)
    ELSE [num |-> IntPow(OddPart(a), b), den |-> 1, exp |-> TwoExp(a) * b]

\* The quotient of two integers in lowest terms.
Quotient(a, b) == Number(a, b)

\* expression.replace('^', '**'): a numeral holds no '^'
ReplaceCaret(expression) ==
    [expression EXCEPT ![2] = IF @ = "^" THEN "**" ELSE @]

\* eval(expression): the value, or the exception raised.  operator.truediv gives
\* a float, the other operators an integer.
Eval(expression) ==
    LET a == expression[1]
        op == expression[2]
        b == expression[3]
    IN  CASE op = "+" -> [raised |-> FALSE, float |-> FALSE, value |-> PyInt(a + b)]
          [] op = "-" -> [raised |-> FALSE, float |-> FALSE, value |-> PyInt(a - b)]
          [] op = "*" -> [raised |-> FALSE, float |-> FALSE, value |-> PyInt(a * b)]
          [] op = "**" -> [raised |-> FALSE, float |-> FALSE, value |-> PyPow(a, b)]
          [] op = "/" -> IF b = 0
                           THEN [raised |-> TRUE, float |-> FALSE, value |-> PyInt(0)]
                           ELSE [raised |-> FALSE, float |-> TRUE, value |-> Quotient(a, b)]

\* float(result): an integer of 2^1024 or more raises OverflowError; a quotient
\* whose denominator is not a power of two was rounded to the nearest double by
\* the division.  The integers of the model have fewer than 53 bits before their
\* power of two, so none of them is rounded.
ToFloat(v) ==
    IF ~v.float /\ v.value.num # 0
       /\ BitLength(Abs(v.value.num)) + v.value.exp > FLOAT_MAX_EXP
      THEN [raised |-> TRUE, value |-> NoCalc.value]
      ELSE [raised |-> FALSE,
            value |-> [num |-> v.value.num, den |-> v.value.den, exp |-> v.value.exp,
                       rounded |-> v.value.den # 1]]

\* CalculatorTool.evaluate: every exception leaves as ValueError.
evaluate(expression) ==
    IF expression[2] \notin OPERATORS
      THEN [raised |-> TRUE, value |-> NoCalc.value]
      ELSE LET result == Eval(ReplaceCaret(expression))
           IN  IF result.raised THEN [raised |-> TRUE, value |-> NoCalc.value]
               ELSE ToFloat(result)

\* A call of evaluate.  The tool keeps nothing between calls, so one call is
\* looked at for each expression.
Evaluate(expression) ==
    /\ ~calc.called
    /\ calc' = [called |-> TRUE, expression |-> expression,
                raised |-> evaluate(expression).raised,
                value |-> evaluate(expression).value]
    /\ UNCHANGED <<memoryVars, risk, serverVars, pipeVars, streamVars>>

NextCalc == \E expression \in Expressions : Evaluate(expression)

SpecCalc == Init /\ [][NextCalc]_vars

\* ------------------------------------------------------- memory: the recall
\* An extraction that forgets the stop-words.
ExtractKeywords_KeepStopWords(text) ==
    SelectSeq([i \in 1..Len(text) |-> Strip(Lower(text[i]))],
              LAMBDA w : WordLen(w) > 2)

\* MemoryRecall._extract_keywords
ExtractKeywords(text) ==
    SelectSeq([i \in 1..Len(text) |-> Strip(Lower(text[i]))],
              LAMBDA w : w \notin StopWords /\ WordLen(w) > 2)

\* The inner loop of find_similar_problems: append what is not there yet.
AppendNew_NoDedup(results, found) == results \o found

RECURSIVE AppendNew(_, _)
AppendNew(results, found) ==
    IF found = <<>> THEN results
    ELSE AppendNew(IF \E i \in 1..Len(results) : results[i].id = Head(found).id
                     THEN results
                     ELSE Append(results, Head(found)),
                   Tail(found))

\* The keyword loop of find_similar_problems.
RECURSIVE KeywordSearch(_, _, _, _)
KeywordSearch(rows, results, keywords, limit) ==
    IF keywords = <<>> THEN results
    ELSE KeywordSearch(rows,
                       AppendNew(results, search_by_text(rows, Head(keywords), limit)),
                       Tail(keywords), limit)

\* The sort key of find_similar_problems, and the order of Python's tuples.
SortKey_RecencyOnly(e) == <<0, e.created_at>>

SortKey(e) == <<IF e.user_feedback = "correct" THEN 1 ELSE 0, e.created_at>>

KeyLess_Reversed(a, b) == b[1] < a[1] \/ (b[1] = a[1] /\ b[2] < a[2])

KeyLess(a, b) == a[1] < b[1] \/ (a[1] = b[1] /\ a[2] < b[2])

\* sorted(..., reverse=True): descending, equal keys keep their order.
InsertByKey(s, e) ==
    LET less == {i \in 1..Len(s) : KeyLess(SortKey(s[i]), SortKey(e))}
        p == IF less = {} THEN Len(s) + 1 ELSE Min(less)
    IN  SubSeq(s, 1, p - 1) \o <<e>> \o SubSeq(s, p, Len(s))

RECURSIVE SortInto(_, _)
SortInto(done, rest) ==
    IF rest = <<>> THEN done ELSE SortInto(InsertByKey(done, Head(rest)), Tail(rest))

SortedDescending(s) == SortInto(<<>>, s)

\* MemoryRecall.find_similar_problems on the rows the repository gives access to.
find_similar_problems(rows, query, topic, limit) ==
    LET topic_results == IF topic # None
                           THEN get_entries_by_topic(rows, topic, limit)
                           ELSE <<>>
        extracted == ExtractKeywords(query)
        keywords == Take(extracted, KEYWORD_LIMIT)
        results == KeywordSearch(rows, topic_results, keywords, limit)
    IN  [extracted |-> extracted, keywords |-> keywords,
         topic_results |-> topic_results,
         result |-> Take(SortedDescending(results), limit)]

\* A call of find_similar_problems.  It reads the store and nothing else, so one
\* call is looked at for each content of the store.
FindSimilar(query, topic, limit) ==
    LET found == find_similar_problems(store, query, topic, limit)
    IN  /\ NothingRead
        /\ recalled' = [called |-> TRUE, query |-> query, extracted |-> found.extracted,
                        keywords |-> found.keywords,
                        topic |-> topic, limit |-> limit,
                        topic_results |-> found.topic_results, result |-> found.result]
        /\ UNCHANGED <<store, patterned, rag, context, clock, returned, toolVars, serverVars,
                       pipeVars, streamVars>>

\* MemoryRecall.get_solution_patterns on the rows the repository gives access to:
\* the entries chosen and the patterns made of them.
Prefetch(limit) == limit * 2

get_solution_patterns(rows, topic, limit) ==
    LET entries == get_correct_entries(rows, Prefetch(limit))
        topic_entries == SelectSeq(entries, LAMBDA e : Lower(e.topic) = Lower(topic))
        chosen == Take(topic_entries, limit)
    IN  [entries |-> chosen,
         patterns |-> [i \in 1..Len(chosen) |-> [problem |-> chosen[i].parsed_question]]]

\* A call of get_solution_patterns.
GetPatterns(topic, limit) ==
    LET got == get_solution_patterns(store, topic, limit)
    IN  /\ NothingRead
        /\ patterned' = [called |-> TRUE, topic |-> topic, limit |-> limit,
                         entries |-> got.entries, patterns |-> got.patterns]
        /\ UNCHANGED <<store, recalled, rag, context, clock, returned, toolVars, serverVars,
                       pipeVars, streamVars>>

NextRecall ==
    \/ \E topic \in Topics, question \in Questions :
          /\ Len(store) < MaxRecallEntries /\ clock < MaxRecallClock
          /\ StoreEntry(topic, question, FALSE) /\ UNCHANGED <<previous, writeVars>>
    \/ \E i \in Ids, feedback \in {"correct", "incorrect"} :
          /\ i <= Len(store) /\ clock < MaxRecallClock
          /\ UpdateFeedback(i, feedback, None) /\ UNCHANGED <<previous, writeVars>>
    \/ \E query \in Texts, topic \in Topics \cup {None}, limit \in 0..MaxLimit :
          FindSimilar(query, topic, limit) /\ UNCHANGED <<previous, writeVars>>

SpecRecall == Init /\ [][NextRecall]_vars

\* Queries long enough to hold more keywords than find_similar_problems uses.
LongTexts == [1..MaxLongWords -> Words]

NextKeywords ==
    \/ \E question \in Questions :
          /\ Len(store) < MaxRecallEntries /\ clock < MaxRecallClock
          /\ StoreEntry("algebra", question, FALSE) /\ UNCHANGED <<previous, writeVars>>
    \/ \E query \in LongTexts, limit \in 1..MaxLimit :
          FindSimilar(query, None, limit) /\ UNCHANGED <<previous, writeVars>>

SpecKeywords == Init /\ [][NextKeywords]_vars

\* -------------------------------------------------- memory: context assembly
\* RAGRetriever.initialize_with_documents with documents, and RAGRetriever.clear
RagInitialize ==
    /\ ~rag.initialized
    /\ rag' = [initialized |-> TRUE]
    /\ UNCHANGED <<store, recalled, patterned, context, clock, returned, toolVars, serverVars,
                   pipeVars, streamVars>>

\* `self.rag.retrieve(query, k=3) if self.rag._is_initialized else []`: retrieve
\* turns any failure of the similarity search into a RetrievalError.
RagContexts(initialized, fails, docs) ==
    IF ~initialized THEN [raised |-> FALSE, contexts |-> <<>>]
    ELSE IF fails THEN [raised |-> TRUE, contexts |-> <<>>]
    ELSE [raised |-> FALSE, contexts |-> docs]

\* Similar problems passed on whatever their feedback.
SimilarPatterns_Unfiltered(similar) ==
    [i \in 1..Len(similar) |->
        [type |-> "similar_problem", problem |-> similar[i].parsed_question]]

\* The similar problems get_combined_context passes on: those marked correct.
SimilarPatterns(similar) ==
    LET correct == SelectSeq(similar, LAMBDA e : e.user_feedback = "correct")
    IN  [i \in 1..Len(correct) |->
            [type |-> "similar_problem", problem |-> correct[i].parsed_question]]

\* MemoryRecall.get_combined_context as SolverAgent._retrieve_context calls it.
\* A repository whose database fails answers every read with an empty list; an
\* exception leaving get_combined_context is caught by the solver, which goes
\* on without any context.
GetCombinedContext(query, topic, docs, index_fails, store_fails) ==
    LET rows == IF store_fails THEN <<>> ELSE store
        retrieved == RagContexts(rag.initialized, index_fails, docs)
        patterns == IF topic # None
                      THEN get_solution_patterns(rows, topic, COMBINED_LIMIT).patterns
                      ELSE <<>>
        similar == find_similar_problems(rows, query, topic, COMBINED_LIMIT).result
        memory_patterns == patterns \o SimilarPatterns(similar)
    IN  /\ NothingRead
        /\ context' =
              [called |-> TRUE, topic |-> topic, initialized |-> rag.initialized,
               index_failed |-> rag.initialized /\ index_fails,
               store_failed |-> store_fails,
               raised |-> retrieved.raised,
               rag_contexts |-> retrieved.contexts,
               memory_patterns |-> IF retrieved.raised THEN <<>> ELSE memory_patterns,
               solver_contexts |-> retrieved.contexts,
               solver_patterns |-> IF retrieved.raised THEN <<>> ELSE memory_patterns]
        /\ UNCHANGED <<store, recalled, patterned, rag, clock, returned, toolVars, serverVars,
                       pipeVars, streamVars>>

\* The store as the patterns are drawn from it: entries of two topics, each
\* marked correct, or not, before the next one is stored, read by
\* get_solution_patterns and by the solver.
NextPatterns ==
    \/ \E topic \in PatternTopics :
          StoreEntry(topic, <<"Integral">>, FALSE) /\ UNCHANGED <<previous, writeVars>>
    \/ \E i \in Ids : /\ i = Len(store) /\ store[i].user_feedback = None
                        /\ UpdateFeedback(i, "correct", None) /\ UNCHANGED <<previous, writeVars>>
    \/ \E topic \in PatternTopics \cup Topics, limit \in 0..MaxLimit :
          GetPatterns(topic, limit) /\ UNCHANGED <<previous, writeVars>>
    \/ RagInitialize /\ UNCHANGED <<previous, writeVars>>
    \/ \E query \in {<<>>, <<"Integral">>}, topic \in {"algebra", None}, docs \in Documents,
          index_fails \in BOOLEAN, store_fails \in BOOLEAN :
          GetCombinedContext(query, topic, docs, index_fails, store_fails) /\ UNCHANGED <<previous, writeVars>>

SpecPatterns == Init /\ [][NextPatterns]_vars

\* The store as the solver's guidance is drawn from it: entries of either
\* question and topic, each given one of the three feedback values or left
\* without, read by get_combined_context for any query.
NextGuidance ==
    \/ \E topic \in Topics, question \in Questions :
          /\ Len(store) < MaxGuidanceEntries
          /\ StoreEntry(topic, question, FALSE) /\ UNCHANGED <<previous, writeVars>>
    \/ \E i \in 1..MaxGuidanceEntries, feedback \in {"correct", "incorrect", "rejected"} :
          /\ i <= Len(store) /\ store[i].user_feedback = None
          /\ UpdateFeedback(i, feedback, None) /\ UNCHANGED <<previous, writeVars>>
    \/ RagInitialize /\ UNCHANGED <<previous, writeVars>>
    \/ \E query \in Texts, topic \in Topics \cup {None}, index_fails \in BOOLEAN,
          store_fails \in BOOLEAN :
          GetCombinedContext(query, topic, <<"doc">>, index_fails, store_fails)
            /\ UNCHANGED <<previous, writeVars>>

SpecGuidance == Init /\ [][NextGuidance]_vars

\* ============================================================ properties
StageSeq(tr) == [i \in 1..Len(tr) |-> tr[i].stage]
AllSucceeded(tr) == \A i \in 1..Len(tr) : tr[i].success
Last(q) == q[Len(q)]
\* The stages a run goes through when no stage raises and Safety does not veto.
FullChain(r) == IF enable[r] /\ settingsGuard THEN <<GUARDRAIL>> \o FiveStages ELSE FiveStages
\* A run of the synchronous orchestrator that returned its output.
SyncResult(r) == mode[r] = "sync" /\ outcome[r].kind = "result"

\* C1: every run that returns a result, Safety disabled or passed, returns a
\* trace of exactly Parse, Classify, Solve, Verify, Explain (after the Safety
\* entry when Safety ran), in that order, each once, all succeeded.
C1_TraceIsTheFiveStages ==
    \A r \in Runs :
        outcome[r].kind = "result" =>
            /\ StageSeq(outcome[r].agent_trace) = FullChain(r)
            /\ AllSucceeded(outcome[r].agent_trace)

\* C2: when Safety signals "do not continue" the run ends in a policy violation,
\* its trace holds the Safety entry alone, and no other stage was invoked.
C2_VetoLeavesOnlySafety ==
    \A r \in Runs :
        (phase[r] = "done" /\ ~safety[r].should_continue) =>
            /\ outcome[r].kind = "GuardrailViolation"
            /\ StageSeq(outcome[r].agent_trace) = <<GUARDRAIL>>
            /\ invoked[r] = <<GUARDRAIL>>

\* C3 (as stated): the result's requires_human_review is true exactly when the
\* parser's ambiguity count reaches its threshold, or the verifier's confidence
\* is under its threshold, or the verifier's issue list is non-empty.
C3_ReviewIffThresholds ==
    \A r \in Runs :
        SyncResult(r) =>
            (outcome[r].requires_human_review <=>
                \/ parsed[r].ambiguities >= PARSER_AMBIGUITY_THRESHOLD
                \/ verification[r].confidence < VERIFIER_CONFIDENCE_THRESHOLD
                \/ verification[r].issues > 0)

\* C3 (amended): in a result of the synchronous orchestrator,
\* requires_human_review is true exactly when the parser's ambiguity count
\* reaches its threshold or the parser's response asks for clarification, or the
\* verifier's confidence is under its threshold or its issue list is non-empty
\* or the verifier's response itself asks for human review.
C3_ReviewIffSignals ==
    \A r \in Runs :
        SyncResult(r) =>
            (outcome[r].requires_human_review <=>
                \/ parsed[r].ambiguities >= PARSER_AMBIGUITY_THRESHOLD
                \/ parsed[r].needs_clarification
                \/ verification[r].confidence < VERIFIER_CONFIDENCE_THRESHOLD
                \/ verification[r].issues > 0
                \/ verification[r].response_flag)

\* A synchronous result flagged for review on needs_clarification alone.
C3_Witness ==
    \E r \in Runs :
        /\ SyncResult(r) /\ outcome[r].requires_human_review
        /\ parsed[r].ambiguities < PARSER_AMBIGUITY_THRESHOLD
        /\ parsed[r].needs_clarification
        /\ verification[r].confidence >= VERIFIER_CONFIDENCE_THRESHOLD
        /\ verification[r].issues = 0
        /\ ~verification[r].response_flag

C5_ReviewIsOrInBothModes ==
    \A r \in Runs :
        outcome[r].kind = "result" =>
            (outcome[r].requires_human_review <=>
                parsed[r].requires_human_review \/ verification[r].requires_human_review)

\* C6: a review signal never halts the chain.  A run in which Parse or Verify
\* set its signal ends with a complete result (answer, explanation, the trace
\* of the whole chain), unless a stage itself raised (the trace then ends with
\* that stage's failed entry) or the streaming consumer cancelled the run.
C6_ReviewNeverHalts ==
    \A r \in Runs :
        (phase[r] = "done"
            /\ (parsed[r].requires_human_review \/ verification[r].requires_human_review)) =>
            \/ /\ outcome[r].kind = "result"
               /\ outcome[r].final_answer /\ outcome[r].explanation
               /\ StageSeq(outcome[r].agent_trace) = FullChain(r)
               /\ invoked[r] = FullChain(r)
            \/ /\ outcome[r].kind = "AgentError"
               /\ ~Last(outcome[r].agent_trace).success
               /\ Last(outcome[r].agent_trace).stage = outcome[r].cause
               /\ outcome[r].cause > PARSER
            \/ /\ outcome[r].kind = "cancelled"
               /\ mode[r] = "stream" /\ is_cancelled[r]

\* A synchronous run in which the Parse signal fired and which returned a result.
C6_Witness ==
    \E r \in Runs :
        /\ SyncResult(r) /\ parsed[r].requires_human_review
        /\ outcome[r].final_answer /\ outcome[r].explanation

\* C7: when a stage raises, it is the last stage invoked in the run, and the
\* trace is one successful entry per stage completed before it, in execution
\* order, then one failed entry for it with its error message.
C7_FailureTrace ==
    \A r \in Runs :
        outcome[r].kind = "AgentError" =>
            LET tr == outcome[r].agent_trace
                n == Len(invoked[r])
            IN  /\ n >= 1
                /\ invoked[r][n] = outcome[r].cause
                /\ StageSeq(tr) = invoked[r]
                /\ \A i \in 1..(n - 1) : tr[i].success
                /\ ~tr[n].success /\ tr[n].error = "stage failed"

\* C8: a Safety veto ends the run with GuardrailViolation, unwrapped, and only a
\* veto does; a stage that raises ends it with the generic AgentError
\* ("Pipeline failed") carrying the stage's failure; the error event of a
\* streaming run carries the message of whichever it was.
C8_ViolationStaysDistinct ==
    \A r \in Runs :
        phase[r] = "done" =>
            /\ (~safety[r].should_continue <=> outcome[r].kind = "GuardrailViolation")
            /\ (outcome[r].kind = "GuardrailViolation" =>
                    outcome[r].message = "Content policy violation")
            /\ ((outcome[r].agent_trace # <<>>
                    /\ Last(outcome[r].agent_trace).error = "stage failed") =>
                   /\ outcome[r].kind = "AgentError"
                   /\ outcome[r].message = "Pipeline failed"
                   /\ outcome[r].cause = Last(outcome[r].agent_trace).stage)
            /\ \A i \in 1..Len(events[r]) :
                   events[r][i].type = "error" =>
                       /\ events[r][i].message = outcome[r].message
                       /\ (events[r][i].message = "Content policy violation"
                               <=> ~safety[r].should_continue)

\* A synchronous run the guardrail vetoed.
C8_Witness ==
    \E r \in Runs :
        /\ mode[r] = "sync" /\ phase[r] = "done" /\ ~safety[r].should_continue
        /\ outcome[r].kind = "GuardrailViolation"

\* C9: what a streaming run has yielded is agent_update events followed by at
\* most one terminal event, the terminal event last; a run that came to its
\* end has yielded exactly one, and a generator that has yielded its terminal
\* event is at no point from which it yields again.
C9_OneTerminalLast ==
    \A r \in Runs :
        LET ev == events[r]
            n == Len(ev)
        IN  /\ \A i \in 1..(n - 1) : ev[i].type = "agent_update"
            /\ (n >= 1 => ev[n].type = "agent_update" \/ IsTerminal(ev[n]))
            /\ (gen[r] \in {"yield_final", "yield_cancel", "done"} =>
                    n >= 1 /\ IsTerminal(ev[n]))
            /\ ((n >= 1 /\ IsTerminal(ev[n])) =>
                    gen[r] \in {"yield_final", "yield_cancel", "done", "closed"})

\* A streaming run ended after updates and a final result.
C9_Witness ==
    \E r \in Runs :
        /\ gen[r] = "done" /\ Len(events[r]) >= 3
        /\ Last(events[r]).type = "final_result"
        /\ events[r][1].type = "agent_update"

\* C10: a streaming run cancelled while a stage is in flight yields, from the
\* cancellation on, the cancelled event and nothing else: no agent_update
\* (none for the stage in flight either), and once the generator has answered,
\* exactly one cancelled event.
C10_CancelYieldsOnlyCancelled ==
    \A r \in Runs :
        (cancelMark[r].at >= 0 /\ cancelMark[r].stage # 0) =>
            LET after == SubSeq(events[r], cancelMark[r].at + 1, Len(events[r]))
            IN  /\ after \in {<<>>, <<CancelledEvent>>}
                /\ (gen[r] \in {"yield_cancel", "done", "closed"} =>
                        after = <<CancelledEvent>>)
                /\ (gen[r] = "ack" => after = <<>>)

\* A run cancelled between the solver's started update, which the consumer had
\* received, and its completion, with the worker's answer already there.
C10_Witness ==
    \E r \in Runs :
        /\ cancelMark[r].stage = SOLVER /\ gen[r] = "done"
        /\ Last(events[r]) = CancelledEvent
        /\ \E i \in 1..cancelMark[r].at :
              events[r][i].stage = SOLVER /\ events[r][i].status = "started"
        /\ fut[r].state = "ok"

\* C11: a streaming run whose consumer is gone (the generator was closed at a
\* yield, or answered a cancellation) has no background task left: solve_task
\* has been cancelled and has ended.
C11_NoTaskWithoutConsumer ==
    \A r \in Runs :
        gen[r] \in {"closed", "yield_cancel"} => phase[r] = "done"

\* C12: once the background task has ended as cancelled, no stage call of the
\* run is executing any more, the call handed to a worker included.
C12_NoStageCallAfterAck ==
    \A r \in Runs :
        outcome[r].kind = "cancelled" => executing[r] = {}

CountOf(q, type) == Cardinality({i \in 1..Len(q) : q[i].type = type})

\* C13: after a streaming run has been cancelled, a second cancellation and
\* every progress notification that still arrives change nothing for the
\* consumer: the queue holds what it held at the cancellation, no error event
\* and at most one cancelled event is yielded.
C13_LateEventsAreNoOps ==
    \A r \in Runs :
        is_cancelled[r] =>
            /\ Len(queue[r]) = cancelMark[r].queued
            /\ CountOf(events[r], "cancelled") <= 1
            /\ CountOf(events[r], "error") = 0
            /\ Len(events[r]) <= cancelMark[r].at + 1
            /\ (gen[r] \in {"yield_cancel", "done"} =>
                    CountOf(events[r], "cancelled") = 1)

\* A run cancelled twice whose generator has ended, and a /solve/async request
\* on the same orchestrator that went through all its stages, none of whose
\* notifications reached the queue or the consumer.
C13_Witness ==
    \E r \in Runs :
        /\ is_cancelled[r] /\ cancelMark[r].again /\ gen[r] = "done"
        /\ \E q \in Runs \ {r} :
              /\ orch[q] = orch[r] /\ ocallback[orch[r]] = r
              /\ outcome[q].kind = "result"
              /\ \A i \in 1..Len(events[r]) : events[r][i].input # q
              /\ \A i \in 1..Len(queue[r]) : queue[r][i].input # q

C15_OnlyPrecedingOutput ==
    \A r \in Runs :
        \A i \in 1..Len(invoked[r]) :
            invoked[r][i] > PARSER => StageInput(invoked[r][i]) \subseteq {invoked[r][i] - 1}

\* C15 (amended): the input of every stage after Parse holds the Parse output
\* and the output of the immediately preceding stage, and only outputs of
\* stages called earlier in the same run, never the Safety output; the inputs
\* of Safety and Parse hold no stage output.
C15_EarlierOutputsWithParse ==
    \A r \in Runs :
        \A i \in 1..Len(invoked[r]) :
            LET k == invoked[r][i]
                earlier == {invoked[r][j] : j \in 1..(i - 1)}
            IN  /\ StageInput(k) \subseteq earlier \ {GUARDRAIL}
                /\ (k > PARSER => {PARSER, k - 1} \subseteq StageInput(k))
                /\ (k <= PARSER => StageInput(k) = {})

\* A run with guardrails on that has called the explainer.
C15_Witness ==
    \E r \in Runs :
        /\ Len(invoked[r]) = 6 /\ invoked[r][1] = GUARDRAIL /\ invoked[r][6] = EXPLAINER

\* C16 (as stated): Safety is called in a run exactly when the request's
\* enable_guardrails flag is set.
C16_SafetyIffRequestFlag ==
    \A r \in Runs :
        invoked[r] # <<>> => (invoked[r][1] = GUARDRAIL <=> enable[r])

\* C16 (amended): Safety is called in a run, as its first stage and once,
\* exactly when the request's enable_guardrails flag and the setting
\* ENABLE_GUARDRAILS are both set.
C16_SafetyIffBothFlags ==
    \A r \in Runs :
        invoked[r] # <<>> =>
            /\ (invoked[r][1] = GUARDRAIL <=> (enable[r] /\ settingsGuard))
            /\ \A i \in 2..Len(invoked[r]) : invoked[r][i] # GUARDRAIL

\* A request asking for guardrails on a server whose setting switches them off:
\* the parser is called first.
C16_Witness ==
    \E r \in Runs :
        /\ enable[r] /\ ~settingsGuard
        /\ invoked[r] # <<>> /\ invoked[r][1] = PARSER

\* ---- memory recall
IsCorrect(e) == e.user_feedback = "correct"
Found == recalled.result
TopicExact(e) == recalled.topic # None /\ e.topic = recalled.topic
KeywordOnly(e) == recalled.topic = None \/ e.topic # recalled.topic

\* C17: the list find_similar_problems returns is ordered by correctness first
\* and by creation time second, both descending: no entry marked correct comes
\* after an entry that is not, and among entries of the same correctness none
\* comes after an older one.
C17_CorrectFirstThenRecent ==
    recalled.called =>
        \A i, j \in 1..Len(Found) :
            i < j => /\ IsCorrect(Found[j]) => IsCorrect(Found[i])
                     /\ IsCorrect(Found[i]) = IsCorrect(Found[j])
                            => Found[i].created_at >= Found[j].created_at

\* A store of one topic-exact correct entry and one later keyword-only incorrect
\* entry, both returned, the topic-exact one first.
C17_Witness ==
    /\ recalled.called /\ Len(store) = 2 /\ Len(Found) = 2
    /\ TopicExact(Found[1]) /\ IsCorrect(Found[1])
    /\ KeywordOnly(Found[2]) /\ Found[2].user_feedback = "incorrect"
    /\ Found[2].created_at > Found[1].created_at

FoundOnlyByKeyword(e) ==
    \A k \in 1..Len(recalled.topic_results) : recalled.topic_results[k].id # e.id

\* C18 (as stated): in the list find_similar_problems returns, an entry that
\* matches the topic exactly and is marked correct comes before every entry that
\* only the keyword search found.
C18_TopicCorrectOutranksKeyword ==
    recalled.called =>
        \A i, j \in 1..Len(Found) :
            (i # j /\ TopicExact(Found[i]) /\ IsCorrect(Found[i])
                   /\ FoundOnlyByKeyword(Found[j]))
                => i < j

\* C18 (amended): such an entry comes before an entry that only the keyword
\* search found exactly when that entry is not both marked correct and created
\* later; a keyword-only entry that is marked correct and more recent comes first.
C18_TopicCorrectOutranksUnlessNewerCorrect ==
    recalled.called =>
        \A i, j \in 1..Len(Found) :
            (i # j /\ TopicExact(Found[i]) /\ IsCorrect(Found[i])
                   /\ FoundOnlyByKeyword(Found[j]))
                => (i < j <=> ~(IsCorrect(Found[j])
                                 /\ Found[j].created_at > Found[i].created_at))

\* The case the statement missed: a topic-exact correct entry returned second,
\* behind a later keyword-only entry that is marked correct too.
C18_Witness ==
    /\ recalled.called /\ Len(Found) = 2
    /\ TopicExact(Found[2]) /\ IsCorrect(Found[2]) /\ ~FoundOnlyByKeyword(Found[2])
    /\ KeywordOnly(Found[1]) /\ FoundOnlyByKeyword(Found[1]) /\ IsCorrect(Found[1])
    /\ Found[1].created_at > Found[2].created_at

\* C19: the list find_similar_problems returns holds no id twice and has at most
\* limit entries, whatever the store, the query, the topic and the limit.
C19_NoDuplicateAtMostLimit ==
    recalled.called =>
        /\ \A i, j \in 1..Len(Found) : Found[i].id = Found[j].id => i = j
        /\ Len(Found) <= recalled.limit

\* An entry fetched by its topic and fetched again by a keyword is returned once,
\* and a second entry, fetched by another keyword, is cut off by the limit.
C19_Witness ==
    /\ recalled.called /\ recalled.limit = 1 /\ Len(Found) = 1 /\ Len(store) = 2
    /\ ~FoundOnlyByKeyword(Found[1])
    /\ \E k \in 1..Len(recalled.keywords) : Like(Found[1].parsed_question, recalled.keywords[k])
    /\ \E i \in 1..Len(store) :
          /\ store[i].id # Found[1].id
          /\ \E k \in 1..Len(recalled.keywords) :
                /\ Like(store[i].parsed_question, recalled.keywords[k])
                /\ ~Like(Found[1].parsed_question, recalled.keywords[k])

\* C20 (as stated): when a topic is given, the topic lookup of
\* find_similar_problems retrieves the most recent limit entries whose stored
\* topic equals it without regard to letter case.
C20_TopicLookupIgnoresCase ==
    (recalled.called /\ recalled.topic # None) =>
        recalled.topic_results =
            Take(Reverse(SelectSeq(store,
                                   LAMBDA e : Lower(e.topic) = Lower(recalled.topic))),
                 recalled.limit)

\* ---- solution patterns
\* C21 (as stated): get_solution_patterns returns the most recent entries, at
\* most limit of them and most recent first, among all stored entries that are
\* marked correct and whose topic equals the given one without regard to letter
\* case: min(limit, number of such entries) patterns.
C21_PatternsAreTheMostRecentCorrect ==
    patterned.called =>
        LET such == Reverse(SelectSeq(store,
                        LAMBDA e : IsCorrect(e) /\ Lower(e.topic) = Lower(patterned.topic)))
        IN  /\ patterned.entries = Take(such, patterned.limit)
            /\ Len(patterned.patterns) =
                  IF patterned.limit < Len(such) THEN patterned.limit ELSE Len(such)

\* ---- the store under feedback
\* C22 (as stated): update_feedback for an id that is not in the store returns
\* False.
C22_MissingIdReportsFailure ==
    (returned.op = "update_feedback" /\ returned.id \notin 1..Len(store))
        => ~returned.ok

\* ---- context assembly
\* C23 (as stated): an error of the store or of the vector index during context
\* assembly is caught inside the recall engine, which returns empty results for
\* the source that failed: get_combined_context does not raise.
C23_RecallCatchesItsErrors ==
    context.called =>
        /\ ~context.raised
        /\ context.index_failed => context.rag_contexts = <<>>
        /\ context.store_failed => context.memory_patterns = <<>>

\* C24 (as stated): with the vector index not initialised, get_combined_context
\* does not raise and returns an empty list of semantic contexts together with
\* the patterns of the store, which are not empty when the store holds an entry
\* marked correct for the topic.
C24_UninitializedIndexKeepsPatterns ==
    (context.called /\ ~context.initialized) =>
        /\ ~context.raised
        /\ context.rag_contexts = <<>>
        /\ (/\ ~context.store_failed
            /\ context.topic # None
            /\ \E i \in 1..Len(store) :
                  IsCorrect(store[i]) /\ Lower(store[i].topic) = Lower(context.topic))
              => context.memory_patterns # <<>>

\* The row with the id of row e among rows, if any.
RowsWithId(rows, e) == {k \in 1..Len(rows) : rows[k].id = e.id}
Served == returned.op # "none"
Touched == returned.id

\* C25: whatever store and feedback requests have been served, no two rows share
\* an id, and every row that was there before the last request is still there
\* with the id and the created_at it had.
C25_IdsUniqueAndRowsStay ==
    Served =>
        /\ \A j, k \in 1..Len(store) : store[j].id = store[k].id => j = k
        /\ \A k \in 1..Len(previous) :
              \E j \in RowsWithId(store, previous[k]) :
                  store[j].created_at = previous[k].created_at

\* An approval with edited text has just stored again an entry that had received
\* feedback, a second entry standing beside it.
C25_Witness ==
    /\ returned.op = "hitl_approve" /\ returned.ok
    /\ Len(store) = 2 /\ Len(previous) = 2
    /\ store[Touched].parsed_question # previous[Touched].parsed_question
    /\ previous[Touched].user_feedback = "correct"
    /\ store[Touched].updated_at > store[Touched].created_at

\* The columns of a row that are neither feedback columns nor parsed_question.
SameElsewhere(a, b) ==
    /\ a.id = b.id /\ a.topic = b.topic /\ a.created_at = b.created_at
ApprovedWithEdit ==
    /\ returned.op = "hitl_approve" /\ returned.ok
    /\ store[Touched].parsed_question # previous[Touched].parsed_question

\* C26 (as stated): a feedback request leaves every column of every stored row as
\* it was, except user_feedback, feedback_comment and updated_at, and
\* parsed_question when the request is an approval with edited text;
\* requires_human_review in particular stays as it was.
C26_OnlyFeedbackColumnsChange ==
    Served =>
        \A k \in 1..Len(previous) :
            /\ SameElsewhere(store[k], previous[k])
            /\ store[k].requires_human_review = previous[k].requires_human_review
            /\ store[k].parsed_question # previous[k].parsed_question
                  => (returned.op = "hitl_approve" /\ Touched = k)

\* C26 (amended): the same, except that an approval with edited text also clears
\* requires_human_review of the row it edits; nothing else changes that flag.
C26_OnlyFeedbackColumnsAndReviewFlagChange ==
    Served =>
        \A k \in 1..Len(previous) :
            /\ SameElsewhere(store[k], previous[k])
            /\ store[k].parsed_question # previous[k].parsed_question
                  => (returned.op = "hitl_approve" /\ Touched = k)
            /\ store[k].requires_human_review # previous[k].requires_human_review
                  => (returned.op = "hitl_approve" /\ Touched = k
                      /\ ~store[k].requires_human_review)

\* An approval with edited text has just cleared the review flag of an entry.
C26_Witness ==
    /\ ApprovedWithEdit
    /\ previous[Touched].requires_human_review
    /\ ~store[Touched].requires_human_review

\* update_feedback has just marked correct, with the comment it already had, an
\* entry that was marked correct before.
MarkedCorrectAgain ==
    /\ returned.op = "update_feedback" /\ Touched \in 1..Len(previous)
    /\ IsCorrect(previous[Touched]) /\ IsCorrect(store[Touched])
    /\ store[Touched].feedback_comment = previous[Touched].feedback_comment

\* C27: marking correct an entry that is already marked correct changes nothing
\* but its updated_at, which moves forward: the entry stays correct, no row is
\* added and no other row changes.
C27_SecondCorrectOnlyAdvancesStamp ==
    MarkedCorrectAgain =>
        /\ Len(store) = Len(previous)
        /\ \A k \in 1..Len(store) : k # Touched => store[k] = previous[k]
        /\ store[Touched] =
              [previous[Touched] EXCEPT !.updated_at = store[Touched].updated_at]
        /\ store[Touched].updated_at > previous[Touched].updated_at

\* The second mark has just been made, on one of two stored entries.
C27_Witness ==
    /\ MarkedCorrectAgain
    /\ Len(store) = 2
    /\ previous[Touched].updated_at > previous[Touched].created_at

\* ---------------------------------------------------------------------------
\* C28  Concurrent store and updateFeedback calls on the same entry are applied
\*      atomically: once the calls have ended the rows are those some serial
\*      order of the calls that succeeded produces, and no row mixes the fields
\*      of two writes.
\* ---------------------------------------------------------------------------
Succeeded == {w \in Writers : txn[w].state = "done" /\ txn[w].ok}

Quiescent ==
    /\ \A w \in Writers : txn[w].state \in {"idle", "done"}
    /\ \E w \in Writers : txn[w].state = "done"

\* The rows after the calls of the writers in order, one after the other.
RECURSIVE Serial(_, _)
Serial(order, rows) ==
    IF order = <<>> THEN rows
    ELSE Serial(Tail(order), Apply(txn[Head(order)].call, rows))

Orders(S) == {order \in [1..Cardinality(S) -> S] :
                 \A a, b \in 1..Cardinality(S) : a # b => order[a] # order[b]}

Token(query, i) == Strip(Lower(query[i]))
Kept(query) == {i \in 1..Len(query) :
                   Token(query, i) \notin StopWords /\ WordLen(Token(query, i)) > 2}
Rank(query, i) == Cardinality({k \in Kept(query) : k <= i})

C29_KeywordsAndFirstThree ==
    recalled.called =>
        /\ Len(recalled.extracted) = Cardinality(Kept(recalled.query))
        /\ \A i \in Kept(recalled.query) :
              recalled.extracted[Rank(recalled.query, i)] = Token(recalled.query, i)
        /\ recalled.topic = None =>
              \A r \in 1..Len(recalled.result) :
                 \E j \in 1..Min({3, Len(recalled.extracted)}) :
                    Like(recalled.result[r].parsed_question, recalled.extracted[j])

\* A query of a stop-word and four keywords: the fourth keyword is the only one
\* that occurs in the stored question, and nothing is found.
C29_Witness ==
    /\ recalled.called /\ recalled.topic = None /\ recalled.limit > 0
    /\ Len(recalled.query) = 5 /\ Len(recalled.extracted) = 4
    /\ \E i \in 1..Len(recalled.query) : Lower(recalled.query[i]) \in StopWords
    /\ \E e \in 1..Len(store) : Like(store[e].parsed_question, recalled.extracted[4])
    /\ \A e \in 1..Len(store), j \in 1..3 :
          ~Like(store[e].parsed_question, recalled.extracted[j])
    /\ recalled.result = <<>>

\* ---------------------------------------------------------------------------
\* C30  The quick risk assessment returns 'high' whenever the lowercased text
\*      contains any high-risk keyword, otherwise 'medium' when it contains any
\*      medium-risk keyword, otherwise 'low'; high wins when keywords of both
\*      levels occur.
\* ---------------------------------------------------------------------------
HighKeywords == {RISK_KEYWORDS.high[k] : k \in 1..Len(RISK_KEYWORDS.high)}
MediumKeywords == {RISK_KEYWORDS.medium[k] : k \in 1..Len(RISK_KEYWORDS.medium)}
HasHigh == \E keyword \in HighKeywords : Contains(LowerText(risk.text), keyword)
HasMedium == \E keyword \in MediumKeywords : Contains(LowerText(risk.text), keyword)

C30_HighThenMediumThenLow ==
    risk.called =>
        /\ HasHigh => risk.level = "high"
        /\ ~HasHigh /\ HasMedium => risk.level = "medium"
        /\ ~HasHigh /\ ~HasMedium => risk.level = "low"

\* A text with a medium keyword and then a high one, both written with capitals,
\* the high one inside a longer word: the level is high.
C30_Witness ==
    /\ risk.called /\ risk.text = <<"Attack", "Hack", "er">>
    /\ HasHigh /\ HasMedium
    /\ risk.level = "high"

\* ---------------------------------------------------------------------------
\* C31  CalculatorTool.evaluate returns the arithmetic value of an expression
\*      built from numerals with +, -, *, / and ** (with ^ read as **), as the
\*      float nearest to it: 2 + 2 gives 4, 10 - 3 gives 7, 5 * 6 gives 30,
\*      20 / 4 gives 5 and 2 ** 3 gives 8.
\* ---------------------------------------------------------------------------
\* The expressions that have an arithmetic value, and that value.
HasValue(expression) ==
    /\ expression[2] \in OPERATORS
    /\ expression[2] = "/" => expression[3] # 0
    /\ expression[2] \in {"**", "^"} => ~(expression[1] = 0 /\ expression[3] = 0)

ArithmeticValue(expression) ==
    LET a == expression[1]
        op == expression[2]
        b == expression[3]
    IN  CASE op = "+" -> PyInt(a + b)
          [] op = "-" -> PyInt(a - b)
          [] op = "*" -> PyInt(a * b)
          [] op = "/" -> Quotient(a, b)
          [] op \in {"**", "^"} -> PyPow(a, b)

Returned(expression, n) ==
    /\ calc.expression = expression
    /\ ~calc.raised
    /\ calc.value.den = 1 /\ calc.value.exp >= 0 /\ ~calc.value.rounded
    /\ calc.value.num * IntPow(2, calc.value.exp) = n

C31_ReturnsArithmeticValue ==
    /\ calc.called /\ HasValue(calc.expression) =>
          /\ ~calc.raised
          /\ [num |-> calc.value.num, den |-> calc.value.den, exp |-> calc.value.exp]
                = ArithmeticValue(calc.expression)
    /\ calc.called /\ calc.expression = <<2, "+", 2>> => Returned(<<2, "+", 2>>, 4)
    /\ calc.called /\ calc.expression = <<10, "-", 3>> => Returned(<<10, "-", 3>>, 7)
    /\ calc.called /\ calc.expression = <<5, "*", 6>> => Returned(<<5, "*", 6>>, 30)
    /\ calc.called /\ calc.expression = <<20, "/", 4>> => Returned(<<20, "/", 4>>, 5)
    /\ calc.called /\ calc.expression = <<2, "**", 3>> => Returned(<<2, "**", 3>>, 8)

\* ---------------------------------------------------------------------------
\* C32 (as stated): when pipeline runs overlap in time, the trace each run
\*      returns holds the stage entries of that run and no others: no entry of
\*      another request is in it and none of its own is missing.
\* ---------------------------------------------------------------------------
C32_TraceHoldsOwnEntriesOnly ==
    \A r \in Runs :
        outcome[r].kind \in {"result", "AgentError", "GuardrailViolation"} =>
            LET tr == outcome[r].agent_trace
            IN  /\ \A i \in 1..Len(tr) : tr[i].input = r
                /\ StageSeq(tr) = invoked[r]

\* ---------------------------------------------------------------------------
\* C33 (as stated): the consumer of a streaming request receives agent_update
\*      events for stages of its own request only, also when another async or
\*      streaming request runs at the same time: every completed or failed
\*      update it receives carries an entry of its request, and the started
\*      updates it receives are those of the stages its request invoked.
\* ---------------------------------------------------------------------------
IsUpdate(ev) == ev.type = "agent_update"
Updates(r) == SelectSeq(events[r], IsUpdate)
IsStarted(ev) == ev.type = "agent_update" /\ ev.status = "started"
StartedStages(r) == StageSeq(SelectSeq(events[r], IsStarted))
IsPrefix(s, t) == Len(s) <= Len(t) /\ SubSeq(t, 1, Len(s)) = s

C33_StreamGetsOwnUpdatesOnly ==
    \A r \in Runs :
        mode[r] = "stream" =>
            /\ \A i \in 1..Len(Updates(r)) :
                  Updates(r)[i].status # "started" => Updates(r)[i].input = r
            /\ IsPrefix(StartedStages(r), invoked[r])

\* ---------------------------------------------------------------------------
\* C34  In a streaming run that is not cancelled, every progress notification
\*      the background pipeline pushes is forwarded to the consumer exactly
\*      once, in the order pushed, and all of them before the terminal event;
\*      the partial trace of a failed run has been delivered in full before
\*      its error event.
\* ---------------------------------------------------------------------------
\* The notifications the pipeline of run r has pushed so far, from the stages it
\* has invoked and the trace entries it has recorded.
Pushed(r) ==
    LET tr == IF orch[r] = NoOrch THEN <<>> ELSE otrace[orch[r]]
        n == Len(invoked[r])
        At(i) == IF i % 2 = 1
                 THEN AgentUpdate(invoked[r][(i + 1) \div 2], "started", NoData)
                 ELSE AgentUpdate(tr[i \div 2].stage,
                                  IF tr[i \div 2].success THEN "completed" ELSE "failed",
                                  tr[i \div 2])
    IN  [i \in 1..(n + Len(tr)) |-> At(i)]

Yielded(r) == events[r] # <<>> /\ IsTerminal(Last(events[r]))

C34_PushedIsForwardedOnceInOrder ==
    \A r \in Runs :
        (mode[r] = "stream" /\ ~is_cancelled[r]) =>
            /\ ~Yielded(r) => events[r] \o queue[r] = Pushed(r)
            /\ Yielded(r) =>
                  /\ queue[r] = <<>>
                  /\ events[r] = Append(Pushed(r), TerminalOf(outcome[r]))
            /\ (Yielded(r) /\ outcome[r].kind = "AgentError") =>
                  \A i \in 1..Len(outcome[r].agent_trace) :
                     \E j \in 1..(Len(events[r]) - 1) :
                        /\ events[r][j].stage = outcome[r].agent_trace[i].stage
                        /\ events[r][j].status \in {"completed", "failed"}
                        /\ events[r][j].success = outcome[r].agent_trace[i].success

\* A run whose solver raised: the consumer has received the updates of parser and
\* router, the failed update of the solver, and then the error event.
C34_Witness ==
    \E r \in Runs :
        /\ mode[r] = "stream" /\ ~is_cancelled[r] /\ gen[r] = "done"
        /\ outcome[r].kind = "AgentError" /\ outcome[r].cause = SOLVER
        /\ Last(events[r]).type = "error"
        /\ Len(events[r]) = Len(invoked[r]) * 2 + 1
        /\ events[r][Len(events[r]) - 1].status = "failed"

\* ---------------------------------------------------------------------------
\* C35 (as stated): in a streaming run, the started event of each stage is
\*      emitted before the stage is invoked and is followed, before any event
\*      of a later stage, by exactly one completed event carrying the stage's
\*      trace entry or exactly one failed event; a failed event is the last
\*      agent_update of the run.
\* ---------------------------------------------------------------------------
\* The agent_update events of run r that its callback has let through: those
\* yielded and those still queued.
Emitted(r) == Updates(r) \o queue[r]

\* The started event of the j-th stage invoked and the event that follows it.
StartedAt(r, j) ==
    /\ Len(Emitted(r)) >= 2 * j - 1
    /\ Emitted(r)[2 * j - 1].stage = invoked[r][j]
    /\ Emitted(r)[2 * j - 1].status = "started"
OutcomeAt(r, j) ==
    /\ Len(Emitted(r)) >= 2 * j
    /\ Len(otrace[orch[r]]) >= j
    /\ LET ev == Emitted(r)[2 * j]
           entry == otrace[orch[r]][j]
       IN  /\ ev.stage = invoked[r][j]
           /\ ev.status \in {"completed", "failed"}
           /\ ev.status = "failed" => 2 * j = Len(Emitted(r))
           /\ entry.stage = invoked[r][j]
           /\ ev.status = (IF entry.success THEN "completed" ELSE "failed")
           /\ ev.input = r /\ entry.input = r
           /\ ev.success = entry.success /\ ev.message = entry.error

\* Every stage invoked has its started event, every stage before the one in
\* flight has its outcome, and there is no other agent_update.
StartedAndOutcomes(r) ==
    LET n == Len(invoked[r])
    IN  /\ \A j \in 1..n : StartedAt(r, j)
        /\ \A j \in 1..(n - 1) : OutcomeAt(r, j)
        /\ Len(Emitted(r)) <= 2 * n

C35_StartedThenOneOutcome ==
    \A r \in Runs :
        mode[r] = "stream" =>
            /\ StartedAndOutcomes(r)
            /\ phase[r] = "done" => OutcomeAt(r, Len(invoked[r]))

\* C35 (amended): the same, except for the stage in flight when the run is
\*      cancelled: its started event is the last agent_update of the run and no
\*      completed or failed event follows it.
C35_StartedThenOneOutcomeUnlessCancelled ==
    \A r \in Runs :
        mode[r] = "stream" =>
            /\ StartedAndOutcomes(r)
            /\ (phase[r] = "done" /\ outcome[r].kind # "cancelled") =>
                  OutcomeAt(r, Len(invoked[r]))
            /\ (phase[r] = "done" /\ outcome[r].kind = "cancelled") =>
                  Len(Emitted(r)) = 2 * Len(invoked[r]) - 1

\* A run cancelled in its solver call: parser and router have their completed
\* events, the solver has its started event and nothing after it.
C35_Witness ==
    \E r \in Runs :
        /\ mode[r] = "stream" /\ phase[r] = "done" /\ outcome[r].kind = "cancelled"
        /\ Last(invoked[r]) = SOLVER
        /\ Last(Emitted(r)).stage = SOLVER /\ Last(Emitted(r)).status = "started"
        /\ Emitted(r)[Len(Emitted(r)) - 1].status = "completed"

\* C36: with every stage call returning or raising, a streaming run yields its
\* terminal event and the stream ends, unless the consumer has gone away
\* before: the generator does not stay in the polling loop once the task is
\* done.
Ended(r) == gen[r] = "done" /\ Yielded(r)

C36_StreamEnds ==
    \A r \in Runs : (mode[r] = "stream") ~> (Ended(r) \/ gen[r] = "closed")

\* A stream whose task ended in the Explainer stage and which has returned
\* after its final event.
C36_Witness ==
    \E r \in Runs :
        /\ mode[r] = "stream" /\ Ended(r)
        /\ Last(events[r]).type = "final_result"
        /\ Last(invoked[r]) = EXPLAINER

\* The entries of the memory that were stored for request r.
Entries(r) == {i \in 1..Len(store) : store[i].original_input = r}

\* The pipeline run of request r has completed with a final result.
Completed(r) == phase[r] = "done" /\ outcome[r].kind = "result"

\* Request r is over: the endpoint has returned, or the stream, not cancelled,
\* has yielded its terminal event or has been left by its consumer.
Over(r) ==
    \/ mode[r] \in {"sync", "async"} /\ phase[r] = "done"
    \/ mode[r] = "stream" /\ ~is_cancelled[r] /\ gen[r] \in {"yield_final", "done", "closed"}

\* The final result has reached the endpoint: solve_problem or
\* solve_problem_async has returned it, or the stream has yielded it.
Delivered(r) ==
    IF mode[r] = "stream"
    THEN \E i \in 1..Len(events[r]) : events[r][i].type = "final_result"
    ELSE Completed(r)

C38_EntryHoldsParsedQuestion ==
    \A r \in Runs : \A i \in Entries(r) :
        /\ store[i].parsed_question # <<>>
        /\ store[i].parsed_question \in {ProblemText(r), RequestText(r)}

\* C39: every pattern get_combined_context returns comes from an entry marked
\* correct: the store holds an entry with the pattern's problem whose
\* user_feedback is "correct".
C39_GuidanceFromCorrectEntriesOnly ==
    context.called =>
        \A j \in 1..Len(context.memory_patterns) :
            \E i \in 1..Len(store) :
                /\ store[i].user_feedback = "correct"
                /\ store[i].parsed_question = context.memory_patterns[j].problem

\* A similar problem marked correct is passed on while the entry with the other
\* question, marked incorrect or rejected, is not.
C39_Witness ==
    /\ context.called /\ Len(store) = 2
    /\ store[1].user_feedback \in {"incorrect", "rejected"}
    /\ store[2].user_feedback = "correct"
    /\ store[1].parsed_question # store[2].parsed_question
    /\ \E j \in 1..Len(context.memory_patterns) :
          /\ "type" \in DOMAIN context.memory_patterns[j]
          /\ context.memory_patterns[j].problem = store[2].parsed_question
    /\ \A j \in 1..Len(context.memory_patterns) :
          context.memory_patterns[j].problem # store[1].parsed_question
    /\ \E k \in 1..Len(ExtractKeywords(<<"x+1=2?", "Integral">>)) :
          Like(store[1].parsed_question, ExtractKeywords(<<"x+1=2?", "Integral">>)[k])

\* C40: an internal error inside the Safety stage does not abort the run and
\* leaves no failed trace entry: the stage has answered "continue", its entry
\* in the trace is a success, and the run has gone on to Parse.
C40_SafetyErrorFailsOpen ==
    \A r \in Runs :
        safety[r].error =>
            /\ safety[r].should_continue
            /\ outcome[r].kind # "GuardrailViolation"
            /\ \A o \in Orchs : \A i \in 1..Len(otrace[o]) :
                   (otrace[o][i].input = r /\ otrace[o][i].stage = GUARDRAIL)
                       => otrace[o][i] = TraceEntry(r, GUARDRAIL, TRUE, "")
            /\ \A i \in 1..Len(outcome[r].agent_trace) :
                   (outcome[r].agent_trace[i].input = r
                      /\ outcome[r].agent_trace[i].stage = GUARDRAIL)
                       => outcome[r].agent_trace[i].success
            /\ cur[r] >= PARSER
            /\ phase[r] = "done" => \E i \in 1..Len(invoked[r]) : invoked[r][i] = PARSER

\* A synchronous run whose guardrail failed internally and which has completed
\* with a final result.
C40_Witness ==
    \E r \in Runs :
        /\ mode[r] = "sync" /\ safety[r].error
        /\ phase[r] = "done" /\ outcome[r].kind = "result"
        /\ Len(outcome[r].agent_trace) = EXPLAINER - GUARDRAIL + 1
        /\ outcome[r].agent_trace[1] = TraceEntry(r, GUARDRAIL, TRUE, "")

====
